---- MODULE Spec2Model ----
(***************************************************************************)
(* padme-core: a Game Boy (DMG) emulator core.                             *)
(*                                                                         *)
(* The machine is a CPU and a bus.  The bus owns the cartridge, the PPU    *)
(* (with VRAM, OAM and the OAM DMA engine), the APU, the joypad, the       *)
(* serial port, the timer, the interrupt handler and the two RAMs.         *)
(* System::step runs one CPU step and then ticks the peripherals.          *)
(*                                                                         *)
(* Bytes are naturals in 0..255 and addresses naturals in 0..65535; the    *)
(* wrapping arithmetic of the source is written out with % where it can    *)
(* wrap.  Memories are sparse: a function from the indices that hold a     *)
(* non-zero byte to that byte, every other index reading 0.                *)
(***************************************************************************)
EXTENDS Integers, Sequences, FiniteSets, TLC

----------------------------------------------------------------------------
(* Byte and word arithmetic                                                *)

RECURSIVE BitAnd(_, _)
\* a & b
BitAnd(a, b) ==
    IF a = 0 \/ b = 0 THEN 0
    ELSE (a % 2) * (b % 2) + 2 * BitAnd(a \div 2, b \div 2)

\* a | b
BitOr(a, b) == a + b - BitAnd(a, b)

\* !a on a u8
BitNot(a) == 255 - a

\* is_set!(n, flag): (n & flag) == flag
is_set(n, flag) == BitAnd(n, flag) = flag

\* make_u16!(h, l)
make_u16(h, l) == h * 256 + l

\* (value >> 8) as u8 and value as u8
HiByte(value) == (value \div 256) % 256
LoByte(value) == value % 256

\* u16 wrapping_add / wrapping_sub
WrapAdd16(x, n) == (x + n) % 65536
WrapSub16(x, n) == (x - n + 65536) % 65536

InRange(x, lo, hi) == lo <= x /\ x <= hi

\* a memory array: read and write of one cell
MemGet(m, i) == IF i \in DOMAIN m THEN m[i] ELSE 0
MemSet(m, i, v) ==
    IF v = 0 THEN [j \in (DOMAIN m) \ {i} |-> m[j]]
    ELSE [j \in (DOMAIN m) \cup {i} |-> IF j = i THEN v ELSE m[j]]
EmptyMem == [j \in {} |-> 0]

----------------------------------------------------------------------------
(* Memory map (region.rs)                                                  *)

ROM_REGION_START == 0
ROM_REGION_END == 32767
ROM_REGION_SIZE == 32768
VRAM_REGION_START == 32768
VRAM_REGION_END == 40959
ERAM_REGION_START == 40960
ERAM_REGION_END == 49151
WRAM_REGION_START == 49152
WRAM_REGION_END == 57343
ECHORAM_REGION_START == 57344
ECHORAM_REGION_END == 65023
OAM_REGION_START == 65024
OAM_REGION_END == 65183
OAM_REGION_SIZE == 160
IO_REGION_START == 65280
IO_JOYPAD_REGION == 65280
IO_SERIAL_REGION_START == 65281
IO_SERIAL_REGION_END == 65282
IO_TIMER_REGION_START == 65284
IO_TIMER_REGION_END == 65287
IO_SOUND_REGION_START == 65296
IO_SOUND_REGION_END == 65343
IO_PPU_REGION_START == 65344
IO_PPU_REGION_END == 65355
HRAM_REGION_START == 65408
HRAM_REGION_END == 65534

REG_SB_ADDR == 65281
REG_SC_ADDR == 65282
REG_DIV_ADDR == 65284
REG_TIMA_ADDR == 65285
REG_TMA_ADDR == 65286
REG_TAC_ADDR == 65287
REG_NR10_ADDR == 65296
REG_NR11_ADDR == 65297
REG_NR12_ADDR == 65298
REG_NR13_ADDR == 65299
REG_NR14_ADDR == 65300
REG_NR21_ADDR == 65302
REG_NR22_ADDR == 65303
REG_NR23_ADDR == 65304
REG_NR24_ADDR == 65305
REG_NR30_ADDR == 65306
REG_NR31_ADDR == 65307
REG_NR32_ADDR == 65308
REG_NR33_ADDR == 65309
REG_NR34_ADDR == 65310
REG_NR41_ADDR == 65312
REG_NR42_ADDR == 65313
REG_NR43_ADDR == 65314
REG_NR44_ADDR == 65315
REG_NR50_ADDR == 65316
REG_NR51_ADDR == 65317
REG_NR52_ADDR == 65318
WAVE_PATTERN_RAM_START == 65328
WAVE_PATTERN_RAM_END == 65343
REG_LCDC_ADDR == 65344
REG_STAT_ADDR == 65345
REG_SCY_ADDR == 65346
REG_SCX_ADDR == 65347
REG_LY_ADDR == 65348
REG_LYC_ADDR == 65349
REG_DMA_ADDR == 65350
REG_BGP_ADDR == 65351
REG_OBP0_ADDR == 65352
REG_OBP1_ADDR == 65353
REG_WY_ADDR == 65354
REG_WX_ADDR == 65355
REG_IF_ADDR == 65295
REG_IE_ADDR == 65535

----------------------------------------------------------------------------
(* State                                                                   *)

VARIABLES
    cpu,            \* Cpu: registers and the halted / master_ie / enabling_ie flags
    it,             \* InterruptHandler: reg_if, reg_ie
    serial,         \* Serial: reg_sb, reg_sc
    timer,          \* Timer
    joypad,         \* Joypad
    ppu,            \* Ppu: registers, vram, oam and the DMA engine
    apu,            \* Apu: the mixer registers
    rom,            \* Rom: the cartridge image and its bank controller
    wram,           \* work RAM
    hram,           \* high RAM
    sys,            \* where System::step stands, and what it has called so far
    cpu_ev,         \* what the last Cpu::step did (history)
    serial_output,  \* the bytes handed to SerialOutput::putchar, in order
    loaded,         \* the result of the last Rom::load, and the image offered
    bus_ev,         \* the last call made on a device from outside (history)
    panic          \* "none", or the abort the program ran into

vars == << cpu, it, serial, timer, joypad, ppu, apu, rom, wram, hram,
           sys, cpu_ev, serial_output, loaded, bus_ev, panic >>

----------------------------------------------------------------------------
(* InterruptHandler (interrupt.rs)                                         *)

Flag_Vblank == 1
Flag_Lcdc == 2
Flag_TimerOverflow == 4
Flag_Serial == 8
Flag_Joypad == 16

DEFAULT_REG_DMG_IF == 225
DEFAULT_REG_DMG_IE == 0

InterruptHandlerNew == [reg_if |-> DEFAULT_REG_DMG_IF, reg_ie |-> DEFAULT_REG_DMG_IE]

\* request storing the flag instead of setting it
ItRequestStore(h, flag) == [h EXCEPT !.reg_if = flag]

\* request: reg_if |= flag
ItRequest(h, flag) == [h EXCEPT !.reg_if = BitOr(@, flag)]

\* clear: reg_if &= !flag
ItClear(h, flag) == [h EXCEPT !.reg_if = BitAnd(@, BitNot(flag))]

ItRead(h, address) == IF address = REG_IF_ADDR THEN h.reg_if ELSE h.reg_ie

ItWrite(h, address, value) ==
    IF address = REG_IF_ADDR THEN [h EXCEPT !.reg_if = value]
    ELSE [h EXCEPT !.reg_ie = value]

----------------------------------------------------------------------------
(* Serial (serial.rs)                                                      *)

DEFAULT_REG_SB == 0
DEFAULT_REG_SC == 126
FLAG_SC_TRANSFER == 128
FLAG_SC_INT_CLOCK == 1
NEW_CHAR_FLAG == BitOr(FLAG_SC_TRANSFER, FLAG_SC_INT_CLOCK)

SerialNew == [reg_sb |-> DEFAULT_REG_SB, reg_sc |-> DEFAULT_REG_SC]

\* Serial::step: what it leaves in the registers, the bytes it sends to the
\* serial output, and the interrupt it requests (0: none)
SerialTickKeepsTransfer(s) ==
    IF BitAnd(s.reg_sc, NEW_CHAR_FLAG) = NEW_CHAR_FLAG
    THEN [serial |-> s, sent |-> << s.reg_sb >>, irq |-> Flag_Serial]
    ELSE [serial |-> s, sent |-> << >>, irq |-> 0]

SerialTick(s) ==
    IF BitAnd(s.reg_sc, NEW_CHAR_FLAG) = NEW_CHAR_FLAG
    THEN [serial |-> [s EXCEPT !.reg_sc = BitAnd(s.reg_sc, BitNot(FLAG_SC_TRANSFER))],
          sent |-> << s.reg_sb >>, irq |-> Flag_Serial]
    ELSE [serial |-> s, sent |-> << >>, irq |-> 0]

SerialRead(s, address) == IF address = REG_SB_ADDR THEN s.reg_sb ELSE s.reg_sc

SerialWrite(s, address, value) ==
    IF address = REG_SB_ADDR THEN [s EXCEPT !.reg_sb = value]
    ELSE [s EXCEPT !.reg_sc = value]

----------------------------------------------------------------------------
(* Timer registers (timer.rs)                                              *)

DEFAULT_REG_DIV == 24
DEFAULT_REG_TIMA == 0
DEFAULT_REG_TMA == 0
DEFAULT_REG_TAC == 248
FLAG_TIMER_ENABLED == 4
FLAG_INPUT_CLOCK_SEL == 3

period_from_tac(tac) ==
    CASE BitAnd(tac, FLAG_INPUT_CLOCK_SEL) = 0 -> 1024
      [] BitAnd(tac, FLAG_INPUT_CLOCK_SEL) = 1 -> 16
      [] BitAnd(tac, FLAG_INPUT_CLOCK_SEL) = 2 -> 64
      [] BitAnd(tac, FLAG_INPUT_CLOCK_SEL) = 3 -> 256

TimerNew ==
    [reg_div |-> DEFAULT_REG_DIV, reg_tima |-> DEFAULT_REG_TIMA,
     reg_tma |-> DEFAULT_REG_TMA, reg_tac |-> DEFAULT_REG_TAC,
     div_cycles |-> 0, tima_cycles |-> 0,
     tima_period |-> period_from_tac(DEFAULT_REG_TAC)]

TimerRead(t, address) ==
    CASE address = REG_DIV_ADDR -> t.reg_div
      [] address = REG_TIMA_ADDR -> t.reg_tima
      [] address = REG_TMA_ADDR -> t.reg_tma
      [] address = REG_TAC_ADDR -> t.reg_tac

TimerWrite(t, address, value) ==
    CASE address = REG_DIV_ADDR -> [t EXCEPT !.reg_div = 0]
      [] address = REG_TIMA_ADDR -> [t EXCEPT !.reg_tima = value]
      [] address = REG_TMA_ADDR -> [t EXCEPT !.reg_tma = value]
      [] address = REG_TAC_ADDR -> [t EXCEPT !.reg_tac = value]

CLOCK_SPEED == 4194304
DIV_PERIOD == CLOCK_SPEED \div 16384

\* Timer::step, the divider: div_cycles += 1, and past DIV_PERIOD the
\* register is incremented and the counter cleared
TimerStepDiv(t) ==
    IF t.div_cycles + 1 > DIV_PERIOD
    THEN [t EXCEPT !.reg_div = (@ + 1) % 256, !.div_cycles = 0]
    ELSE [t EXCEPT !.div_cycles = @ + 1]

\* Timer::step, the increment of TIMA once tima_cycles has reached the
\* period: the result carries the interrupt requested (irq, 0 if none)
TimaIncrement(t) ==
    IF (t.reg_tima + 1) % 256 = 255
    THEN [timer |-> [t EXCEPT !.reg_tima = t.reg_tma, !.tima_cycles = 0],
          irq |-> Flag_TimerOverflow, inc |-> TRUE]
    ELSE [timer |-> [t EXCEPT !.reg_tima = (@ + 1) % 256, !.tima_cycles = 0],
          irq |-> 0, inc |-> TRUE]

\* Timer::step, the part on TIMA: a changed period is taken over and the
\* cycle counter cleared; otherwise an enabled timer counts
TimerStepTima(t) ==
    IF period_from_tac(t.reg_tac) # t.tima_period
    THEN [timer |-> [t EXCEPT !.tima_period = period_from_tac(t.reg_tac),
                              !.tima_cycles = 0],
          irq |-> 0, inc |-> FALSE]
    ELSE IF BitAnd(t.reg_tac, FLAG_TIMER_ENABLED) = FLAG_TIMER_ENABLED
    THEN IF t.tima_cycles + 1 >= t.tima_period
         THEN TimaIncrement(t)
         ELSE [timer |-> [t EXCEPT !.tima_cycles = @ + 1], irq |-> 0, inc |-> FALSE]
    ELSE [timer |-> t, irq |-> 0, inc |-> FALSE]

\* Timer::step
TimerStep(t) == TimerStepTima(TimerStepDiv(t))

----------------------------------------------------------------------------
(* Joypad (joypad.rs)                                                      *)

DEFAULT_REG_DMG_P1 == 207

JoypadNew == [reg_p1 |-> DEFAULT_REG_DMG_P1, button_state |-> 0, dir_state |-> 0]

JoypadRead(j) ==
    LET select == BitAnd(j.reg_p1, 48)
    IN  CASE select = 16 -> BitOr(select, BitNot(j.dir_state))
          [] select = 32 -> BitOr(select, BitNot(j.button_state))
          [] OTHER -> j.reg_p1

JoypadWrite(j, value) == [j EXCEPT !.reg_p1 = BitNot(value)]

FLAG_ACTION_BUTTON == 32
FLAG_DIR_BUTTON == 16

\* enum Button, as u8
Button_A == 33

\* Joypad::set_button: the joypad after the call, and the interrupt requested
set_button(j, button, is_pressed) ==
    IF is_set(button, FLAG_ACTION_BUTTON)
    THEN IF is_pressed
         THEN [joypad |-> [j EXCEPT !.button_state = BitOr(@, button)], irq |-> Flag_Joypad]
         ELSE [joypad |-> [j EXCEPT !.button_state = BitAnd(@, BitNot(button))], irq |-> 0]
    ELSE IF is_set(button, FLAG_DIR_BUTTON)
    THEN IF is_pressed
         THEN [joypad |-> [j EXCEPT !.dir_state = BitOr(@, button)], irq |-> Flag_Joypad]
         ELSE [joypad |-> [j EXCEPT !.dir_state = BitAnd(@, BitNot(button))], irq |-> 0]
    ELSE [joypad |-> j, irq |-> 0]

----------------------------------------------------------------------------
(* Ppu: registers, video memories and the OAM DMA engine (ppu/ppu.rs)      *)

DEFAULT_REG_DMG_LCDC == 145
DEFAULT_REG_DMG_STAT == 129
DEFAULT_REG_DMG_LY == 145
DEFAULT_REG_DMG_DMA == 255
DEFAULT_REG_DMG_BGP == 252
DEFAULT_REG_DMG_OBP0 == 255
DEFAULT_REG_DMG_OBP1 == 255

\* Pipeline::new
PipelineNew ==
    [disabled |-> FALSE, ticks |-> 0, fifo_head |-> 0, fifo_tail |-> 0,
     fifo_data |-> [i \in 0 .. 15 |-> 0],
     obj_count |-> 0, fetch_x |-> 0, render_x |-> 0, lx |-> 0,
     state |-> "Tile", win_y_triggered |-> FALSE, win_ly |-> 0]

PpuNew ==
    [vram |-> EmptyMem, oam |-> EmptyMem, pipeline |-> PipelineNew,
     reg_lcdc |-> DEFAULT_REG_DMG_LCDC, reg_stat |-> DEFAULT_REG_DMG_STAT,
     reg_scy |-> 0, reg_scx |-> 0,
     reg_ly |-> DEFAULT_REG_DMG_LY, reg_lyc |-> 0,
     reg_wy |-> 0, reg_wx |-> 0,
     reg_dma |-> DEFAULT_REG_DMG_DMA, reg_bgp |-> DEFAULT_REG_DMG_BGP,
     reg_obp0 |-> DEFAULT_REG_DMG_OBP0, reg_obp1 |-> DEFAULT_REG_DMG_OBP1,
     hdots |-> 0, dma_active |-> FALSE, dma_idx |-> 0]

dma_start(p, source) ==
    [p EXCEPT !.reg_dma = source, !.dma_active = TRUE, !.dma_idx = 0]

is_dma_active(p) == p.dma_active

dma_source_page(p) == p.reg_dma * 256

dma_source(p) == p.reg_dma * 256 + p.dma_idx

dma_write(p, byte) ==
    [p EXCEPT !.oam = MemSet(p.oam, p.dma_idx, byte),
              !.dma_idx = p.dma_idx + 1,
              !.dma_active = IF p.dma_idx + 1 >= OAM_REGION_SIZE THEN FALSE
                             ELSE p.dma_active]

PpuRead(p, address) ==
    CASE InRange(address, VRAM_REGION_START, VRAM_REGION_END) ->
            MemGet(p.vram, address - VRAM_REGION_START)
      [] InRange(address, OAM_REGION_START, OAM_REGION_END) ->
            MemGet(p.oam, address - OAM_REGION_START)
      [] address = REG_LCDC_ADDR -> p.reg_lcdc
      [] address = REG_STAT_ADDR -> p.reg_stat
      [] address = REG_SCY_ADDR -> p.reg_scy
      [] address = REG_SCX_ADDR -> p.reg_scx
      [] address = REG_LY_ADDR -> p.reg_ly
      [] address = REG_LYC_ADDR -> p.reg_lyc
      [] address = REG_WY_ADDR -> p.reg_wy
      [] address = REG_WX_ADDR -> p.reg_wx
      [] address = REG_DMA_ADDR -> p.reg_dma
      [] address = REG_BGP_ADDR -> p.reg_bgp
      [] address = REG_OBP0_ADDR -> p.reg_obp0
      [] address = REG_OBP1_ADDR -> p.reg_obp1

\* the addresses that have an arm in Ppu::write; any other address falls to
\* the arm that aborts
PpuWriteHandles(address) ==
    \/ InRange(address, VRAM_REGION_START, VRAM_REGION_END)
    \/ InRange(address, OAM_REGION_START, OAM_REGION_END)
    \/ address \in {REG_LCDC_ADDR, REG_STAT_ADDR, REG_SCY_ADDR, REG_SCX_ADDR,
                    REG_LYC_ADDR, REG_WY_ADDR, REG_WX_ADDR, REG_DMA_ADDR,
                    REG_BGP_ADDR, REG_OBP0_ADDR, REG_OBP1_ADDR}

PpuWrite(p, address, value) ==
    CASE InRange(address, VRAM_REGION_START, VRAM_REGION_END) ->
            [p EXCEPT !.vram = MemSet(p.vram, address - VRAM_REGION_START, value)]
      [] InRange(address, OAM_REGION_START, OAM_REGION_END) ->
            [p EXCEPT !.oam = MemSet(p.oam, address - OAM_REGION_START, value)]
      [] address = REG_LCDC_ADDR -> [p EXCEPT !.reg_lcdc = value]
      [] address = REG_STAT_ADDR ->
            [p EXCEPT !.reg_stat = BitOr(BitAnd(value, 248), BitAnd(p.reg_stat, 7))]
      [] address = REG_SCY_ADDR -> [p EXCEPT !.reg_scy = value]
      [] address = REG_SCX_ADDR -> [p EXCEPT !.reg_scx = value]
      [] address = REG_LYC_ADDR -> [p EXCEPT !.reg_lyc = value]
      [] address = REG_WY_ADDR -> [p EXCEPT !.reg_wy = value]
      [] address = REG_WX_ADDR -> [p EXCEPT !.reg_wx = value]
      [] address = REG_DMA_ADDR -> dma_start(p, value)
      [] address = REG_BGP_ADDR -> [p EXCEPT !.reg_bgp = value]
      [] address = REG_OBP0_ADDR -> [p EXCEPT !.reg_obp0 = value]
      [] address = REG_OBP1_ADDR -> [p EXCEPT !.reg_obp1 = value]
      [] OTHER -> p

----------------------------------------------------------------------------
(* Ppu::step: the modes of a scanline and the pixel pipeline (ppu/ppu.rs,  *)
(* ppu/pipeline.rs, collections/queue.rs).  A pixel is followed by where   *)
(* it is set, not by its colour: of the pipeline the record keeps what     *)
(* decides when a pixel is popped and where it goes, and leaves out the    *)
(* tile and sprite bytes fetched from video memory.  Of the FIFO it keeps  *)
(* head and tail.                                                          *)

FRAME_WIDTH == 160
FRAME_HEIGHT == 144
FLAG_STAT_IT_LYC == 64
FLAG_STAT_IT_OAM == 32
FLAG_STAT_IT_VBLANK == 16
FLAG_STAT_IT_HBLANK == 8
FLAG_STAT_LYC == 4
FLAG_STAT_MODE == 3
LCD_STATUS_MODE_HBLANK == 0
LCD_STATUS_MODE_VBLANK == 1
LCD_STATUS_MODE_OAM == 2
LCD_STATUS_MODE_XFER == 3
FLAG_LCDC_LCD_ENABLE == 128
FLAG_LCDC_WIN_ENABLE == 32
FLAG_LCDC_OBJ_SIZE == 4
OAM_LIMIT_PERIOD == 80
XFER_LIMIT_PERIOD == OAM_LIMIT_PERIOD + 172
HBLANK_LIMIT_PERIOD == 456
FRAME_LIMIT_PERIOD == HBLANK_LIMIT_PERIOD * FRAME_HEIGHT
VBLANK_LIMIT_PERIOD == FRAME_LIMIT_PERIOD + HBLANK_LIMIT_PERIOD * 10

\* Queue<Pixel, 16>: size, clear, push and pop on head and tail
QueueSize(pl) == ((pl.fifo_head - pl.fifo_tail + 256) % 256) % 16

QueueClear(pl) == [pl EXCEPT !.fifo_head = 0, !.fifo_tail = 0]

\* Queue::is_full
QueueIsFull(pl) == ((pl.fifo_head - pl.fifo_tail + 256) % 256) % 16 = 15

\* push that never moves the tail
QueuePushKeep(pl) == [pl EXCEPT !.fifo_head = (@ + 1) % 16]

QueuePush(pl) ==
    [pl EXCEPT !.fifo_tail = IF QueueSize(pl) = 15 THEN (@ + 1) % 16 ELSE @,
               !.fifo_head = (@ + 1) % 16]

QueuePop(pl) == [pl EXCEPT !.fifo_tail = (@ + 1) % 16]

\* push of a value: data[head] = value
QueuePushValue(pl, value) == [QueuePush(pl) EXCEPT !.fifo_data[pl.fifo_head] = value]

\* a pop that returns the newest element
QueuePopNewest(pl) == pl.fifo_data[(pl.fifo_head + 15) % 16]

\* the value pop returns: data[tail]
QueuePopValue(pl) == pl.fifo_data[pl.fifo_tail]

\* Ppu::mode, is_lcd_enabled, obj_size
PpuMode(p) == BitAnd(p.reg_stat, FLAG_STAT_MODE)
is_lcd_enabled(p) == is_set(p.reg_lcdc, FLAG_LCDC_LCD_ENABLE)
obj_size(p) == IF is_set(p.reg_lcdc, FLAG_LCDC_OBJ_SIZE) THEN 16 ELSE 8

\* Ppu::set_mode
set_mode(p, mode) ==
    [p EXCEPT !.reg_stat = BitOr(BitAnd(@, BitNot(FLAG_STAT_MODE)), mode)]

\* A call of Ppu::step is followed in a record k: the Ppu (ppu), the
\* interrupts requested so far (irq), and what went to the Screen: nothing,
\* one set_pixel at (x, y), or the white frame of Ppu::disable ("blank").

\* it.request(Lcdc) if the STAT bit flag is set
StatRequest(k, flag) ==
    IF is_set(k.ppu.reg_stat, flag) THEN [k EXCEPT !.irq = BitOr(@, Flag_Lcdc)] ELSE k

\* Ppu::set_ly
set_ly(k, value) ==
    IF value = k.ppu.reg_lyc
    THEN StatRequest([k EXCEPT !.ppu.reg_ly = value,
                               !.ppu.reg_stat = BitOr(@, FLAG_STAT_LYC)],
                     FLAG_STAT_IT_LYC)
    ELSE [k EXCEPT !.ppu.reg_ly = value,
                   !.ppu.reg_stat = BitAnd(@, BitNot(FLAG_STAT_LYC))]

\* Ppu::inc_ly
inc_ly(k) == set_ly(k, k.ppu.reg_ly + 1)

\* Ppu::scan_sprites: the sprites of OAM that cover the line, at most 10
SpriteOnLine(p, i) ==
    /\ p.reg_ly + 16 >= MemGet(p.oam, i)
    /\ p.reg_ly + 16 < MemGet(p.oam, i) + obj_size(p)

SpritesOnLine(p) == {i \in 0 .. (OAM_REGION_SIZE \div 4 - 1) : SpriteOnLine(p, 4 * i)}

scan_sprites(p) ==
    [p EXCEPT !.pipeline.obj_count =
                 IF Cardinality(SpritesOnLine(p)) >= 10 THEN 10
                 ELSE Cardinality(SpritesOnLine(p))]

\* handle_mode_oam, first dot: the test for the window on this line
WinOnLine(p) ==
    /\ is_set(p.reg_lcdc, FLAG_LCDC_WIN_ENABLE)
    /\ p.reg_wx < FRAME_WIDTH
    /\ p.reg_wy < FRAME_HEIGHT
    /\ p.reg_ly >= p.reg_wy
    /\ p.reg_ly < (p.reg_wy + FRAME_HEIGHT) % 256

WinTrigger(p) ==
    IF ~WinOnLine(p) THEN p
    ELSE IF ~p.pipeline.win_y_triggered
    THEN [p EXCEPT !.pipeline.win_y_triggered = TRUE]
    ELSE [p EXCEPT !.pipeline.win_ly = @ + 1]

\* Pipeline::init_fetcher
init_fetcher(p) ==
    [p EXCEPT !.pipeline = [QueueClear(@) EXCEPT !.state = "Tile", !.render_x = 0,
                                                  !.fetch_x = 0, !.lx = 0]]

\* Mode 2
handle_mode_oam(k) ==
    IF k.ppu.hdots = 1 THEN [k EXCEPT !.ppu = WinTrigger(scan_sprites(@))]
    ELSE IF k.ppu.hdots >= OAM_LIMIT_PERIOD
    THEN [k EXCEPT !.ppu = init_fetcher(set_mode(@, LCD_STATUS_MODE_XFER))]
    ELSE k

RECURSIVE PushN(_, _)
\* Ppu::push_pixels: for each of the 8 bits, bgw_fifo.push and fetch_x += 1
PushN(pl, n) ==
    IF n = 0 THEN pl
    ELSE PushN([QueuePush(pl) EXCEPT !.fetch_x = @ + 1], n - 1)

\* the fetcher pushing two rows of pixels at once
FetcherAdvanceTwoRows(pl) ==
    CASE pl.state = "Tile" -> [pl EXCEPT !.state = "TileDataLow"]
      [] pl.state = "TileDataLow" -> [pl EXCEPT !.state = "TileDataHigh"]
      [] pl.state = "TileDataHigh" -> [pl EXCEPT !.state = "Sleep"]
      [] pl.state = "Sleep" -> [pl EXCEPT !.state = "Push"]
      [] pl.state = "Push" ->
            IF pl.fifo_head = pl.fifo_tail
            THEN [PushN(pl, 16) EXCEPT !.state = "Tile"]
            ELSE pl

\* Ppu::fetch_pixel_row, the state machine of the fetcher
FetcherAdvance(pl) ==
    CASE pl.state = "Tile" -> [pl EXCEPT !.state = "TileDataLow"]
      [] pl.state = "TileDataLow" -> [pl EXCEPT !.state = "TileDataHigh"]
      [] pl.state = "TileDataHigh" -> [pl EXCEPT !.state = "Sleep"]
      [] pl.state = "Sleep" -> [pl EXCEPT !.state = "Push"]
      [] pl.state = "Push" ->
            IF pl.fifo_head = pl.fifo_tail
            THEN [PushN(pl, 8) EXCEPT !.state = "Tile"]
            ELSE pl

\* Ppu::fetch_pixel_row: the fetcher runs every other call
fetch_pixel_row(pl) ==
    IF pl.ticks + 1 = 2 THEN [pl EXCEPT !.ticks = 0]
    ELSE FetcherAdvance([pl EXCEPT !.ticks = @ + 1])

\* Ppu::render, after fetch_pixel_row: a pixel is popped, and set on the
\* screen once the first SCX % 8 of the line are dropped
RenderPop(k) ==
    IF QueueSize(k.ppu.pipeline) = 0 THEN k
    ELSE IF k.ppu.pipeline.lx >= k.ppu.reg_scx % 8
    THEN [k EXCEPT !.emitted = "pixel", !.x = k.ppu.pipeline.render_x,
                   !.y = k.ppu.reg_ly,
                   !.ppu.pipeline = [QueuePop(@) EXCEPT !.render_x = @ + 1,
                                                        !.lx = @ + 1]]
    ELSE [k EXCEPT !.ppu.pipeline = [QueuePop(@) EXCEPT !.lx = @ + 1]]

\* Ppu::render
render(k) ==
    IF ~k.ppu.pipeline.disabled
    THEN RenderPop([k EXCEPT !.ppu.pipeline = fetch_pixel_row(@)])
    ELSE [k EXCEPT !.ppu.pipeline.render_x = @ + 1]

\* handle_mode_xfer rendering one pixel past the width of the frame
handle_mode_xfer_wide(k) ==
    IF k.ppu.pipeline.render_x <= FRAME_WIDTH THEN render(k)
    ELSE IF k.ppu.hdots >= XFER_LIMIT_PERIOD
    THEN StatRequest([k EXCEPT !.ppu = set_mode([@ EXCEPT !.pipeline = QueueClear(@)],
                                                LCD_STATUS_MODE_HBLANK)],
                     FLAG_STAT_IT_HBLANK)
    ELSE k

\* Mode 3
handle_mode_xfer(k) ==
    IF k.ppu.pipeline.render_x < FRAME_WIDTH THEN render(k)
    ELSE IF k.ppu.hdots >= XFER_LIMIT_PERIOD
    THEN StatRequest([k EXCEPT !.ppu = set_mode([@ EXCEPT !.pipeline = QueueClear(@)],
                                                LCD_STATUS_MODE_HBLANK)],
                     FLAG_STAT_IT_HBLANK)
    ELSE k

\* Mode 0, at the end of the line, after inc_ly
HblankEnd(k) ==
    IF k.ppu.reg_ly >= FRAME_HEIGHT
    THEN StatRequest([k EXCEPT !.ppu = set_mode([@ EXCEPT !.hdots = 0],
                                                LCD_STATUS_MODE_VBLANK),
                               !.irq = BitOr(@, Flag_Vblank)],
                     FLAG_STAT_IT_VBLANK)
    ELSE StatRequest([k EXCEPT !.ppu = set_mode([@ EXCEPT !.hdots = 0],
                                                LCD_STATUS_MODE_OAM)],
                     FLAG_STAT_IT_OAM)

\* handle_mode_hblank with a line one dot longer
handle_mode_hblank_late(k) ==
    IF k.ppu.hdots > HBLANK_LIMIT_PERIOD THEN HblankEnd(inc_ly(k)) ELSE k

\* Mode 0
handle_mode_hblank(k) ==
    IF k.ppu.hdots >= HBLANK_LIMIT_PERIOD THEN HblankEnd(inc_ly(k)) ELSE k

\* Mode 1, the pipeline follows the LCD enable bit; Ppu::disable sets the
\* whole screen white
VblankLcd(k) ==
    IF ~k.ppu.pipeline.disabled /\ ~is_lcd_enabled(k.ppu)
    THEN [k EXCEPT !.ppu.pipeline.disabled = TRUE, !.emitted = "blank"]
    ELSE IF k.ppu.pipeline.disabled /\ is_lcd_enabled(k.ppu)
    THEN [k EXCEPT !.ppu.pipeline.disabled = FALSE]
    ELSE k

\* Mode 1, past the last line: after set_ly(0)
VblankWrap(k) ==
    StatRequest([k EXCEPT !.ppu = set_mode([@ EXCEPT !.pipeline.win_ly = 0,
                                                     !.pipeline.win_y_triggered = FALSE,
                                                     !.hdots = 0],
                                           LCD_STATUS_MODE_OAM)],
                FLAG_STAT_IT_OAM)

\* VblankEnd with the last line one line later
VblankEndLate(k) ==
    IF k.ppu.reg_ly * HBLANK_LIMIT_PERIOD > VBLANK_LIMIT_PERIOD
    THEN VblankWrap(set_ly(k, 0))
    ELSE [k EXCEPT !.ppu.hdots = 0]

\* Mode 1, at the end of the line, after inc_ly
VblankEnd(k) ==
    IF k.ppu.reg_ly * HBLANK_LIMIT_PERIOD >= VBLANK_LIMIT_PERIOD
    THEN VblankWrap(set_ly(k, 0))
    ELSE [k EXCEPT !.ppu.hdots = 0]

VblankLine(k) ==
    IF k.ppu.hdots >= HBLANK_LIMIT_PERIOD THEN VblankEnd(inc_ly(k)) ELSE k

\* Mode 1
handle_mode_vblank(k) == VblankLine(VblankLcd(k))

\* Ppu::step, after hdots += 1
PpuDispatch(k) ==
    CASE PpuMode(k.ppu) = LCD_STATUS_MODE_OAM -> handle_mode_oam(k)
      [] PpuMode(k.ppu) = LCD_STATUS_MODE_XFER -> handle_mode_xfer(k)
      [] PpuMode(k.ppu) = LCD_STATUS_MODE_HBLANK -> handle_mode_hblank(k)
      [] PpuMode(k.ppu) = LCD_STATUS_MODE_VBLANK -> handle_mode_vblank(k)

\* Ppu::step
PpuStep(p) ==
    PpuDispatch([ppu |-> [p EXCEPT !.hdots = @ + 1], irq |-> 0,
                 emitted |-> "none", x |-> 0, y |-> 0])

----------------------------------------------------------------------------
(* Apu: the four channels and the mixer (apu/apu.rs, apu/channel1.rs to    *)
(* apu/channel4.rs, apu/modulation.rs).  A method of a trait of            *)
(* modulation.rs takes the channel and, where the trait reads a register   *)
(* through an accessor, the value of that register.  The samples handed to *)
(* the speaker are not part of the state.                                  *)

FRAME_SEQUENCER_RATE == 512
FRAME_SEQUENCER_PERIOD == CLOCK_SPEED \div FRAME_SEQUENCER_RATE

DEFAULT_REG_DMG_NR10 == 128
DEFAULT_REG_DMG_NR11 == 191
DEFAULT_REG_DMG_NR12 == 243
DEFAULT_REG_DMG_NR13 == 255
DEFAULT_REG_DMG_NR14 == 191
DEFAULT_REG_DMG_NR21 == 63
DEFAULT_REG_DMG_NR22 == 0
DEFAULT_REG_DMG_NR23 == 255
DEFAULT_REG_DMG_NR24 == 191
DEFAULT_REG_DMG_NR30 == 127
DEFAULT_REG_DMG_NR31 == 255
DEFAULT_REG_DMG_NR32 == 159
DEFAULT_REG_DMG_NR33 == 255
DEFAULT_REG_DMG_NR34 == 191
DEFAULT_REG_DMG_NR41 == 63
DEFAULT_REG_DMG_NR42 == 0
DEFAULT_REG_DMG_NR43 == 255
DEFAULT_REG_DMG_NR44 == 191
DEFAULT_REG_DMG_NR50 == 119
DEFAULT_REG_DMG_NR51 == 243
DEFAULT_REG_DMG_NR52 == 241

Channel1New ==
    [enabled |-> FALSE, reg_nr10 |-> DEFAULT_REG_DMG_NR10,
     reg_nr11 |-> DEFAULT_REG_DMG_NR11, reg_nr12 |-> DEFAULT_REG_DMG_NR12,
     reg_nr13 |-> DEFAULT_REG_DMG_NR13, reg_nr14 |-> DEFAULT_REG_DMG_NR14,
     current_volume |-> DEFAULT_REG_DMG_NR12 \div 16,
     envelope_timer |-> BitAnd(DEFAULT_REG_DMG_NR12, 7),
     wave_cursor |-> 0, frequency_timer |-> 4, length_counter |-> 64,
     length_half_period |-> FALSE, sweep_timer |-> 0, shadow_frequency |-> 0,
     sweep_enabled |-> FALSE, sweep_was_decreasing |-> FALSE]

Channel2New ==
    [enabled |-> FALSE, reg_nr21 |-> DEFAULT_REG_DMG_NR21,
     reg_nr22 |-> DEFAULT_REG_DMG_NR22, reg_nr23 |-> DEFAULT_REG_DMG_NR23,
     reg_nr24 |-> DEFAULT_REG_DMG_NR24,
     current_volume |-> DEFAULT_REG_DMG_NR22 \div 16,
     envelope_timer |-> BitAnd(DEFAULT_REG_DMG_NR22, 7),
     wave_cursor |-> 0, frequency_timer |-> 4, length_counter |-> 64,
     length_half_period |-> FALSE]

Channel3New ==
    [enabled |-> FALSE, reg_nr30 |-> DEFAULT_REG_DMG_NR30,
     reg_nr31 |-> DEFAULT_REG_DMG_NR31, reg_nr32 |-> DEFAULT_REG_DMG_NR32,
     reg_nr33 |-> DEFAULT_REG_DMG_NR33, reg_nr34 |-> DEFAULT_REG_DMG_NR34,
     length_counter |-> 256, length_half_period |-> FALSE,
     frequency_timer |-> 4, wave_cursor |-> 0, wave_ram |-> EmptyMem,
     current_wave_sample |-> 0, wave_just_read |-> FALSE]

Channel4New ==
    [enabled |-> FALSE, reg_nr41 |-> DEFAULT_REG_DMG_NR41,
     reg_nr42 |-> DEFAULT_REG_DMG_NR42, reg_nr43 |-> DEFAULT_REG_DMG_NR43,
     reg_nr44 |-> DEFAULT_REG_DMG_NR44,
     current_volume |-> DEFAULT_REG_DMG_NR42 \div 16,
     envelope_timer |-> BitAnd(DEFAULT_REG_DMG_NR42, 7),
     frequency_timer |-> 4, length_counter |-> 64,
     length_half_period |-> FALSE, lfsr |-> 0]

ApuNew ==
    [reg_nr50 |-> DEFAULT_REG_DMG_NR50, reg_nr51 |-> DEFAULT_REG_DMG_NR51,
     reg_nr52 |-> DEFAULT_REG_DMG_NR52, ticks |-> 0, fs_step |-> 0,
     channel_1 |-> Channel1New, channel_2 |-> Channel2New,
     channel_3 |-> Channel3New, channel_4 |-> Channel4New]

ApuIsEnabled(a) == (a.reg_nr52 \div 128) # 0

\* Channel::is_dac_enabled of the channels with an envelope register
EnvelopeDac(reg) == BitAnd(reg, 248) # 0

\* Channel3::is_dac_enabled
Ch3Dac(c) == is_set(c.reg_nr30, 128)

\* LengthModulation::is_length_enabled
LengthEnabled(reg) == is_set(reg, 64)

\* Clock::frequency of channels 1 to 3
WaveFrequency(hi, lo) == BitAnd(hi, 7) * 256 + lo

\* Clock::reset_frequency_timer: the value stored, as u16
WavePeriod(hi, lo) == ((2048 - WaveFrequency(hi, lo)) * 4) % 65536

\* Channel3: Clock::reset_frequency_timer
Ch3Period(c) == ((2048 - WaveFrequency(c.reg_nr34, c.reg_nr33)) * 2) % 65536

\* Channel4: Clock::frequency
Ch4Frequency(c) ==
    (IF BitAnd(c.reg_nr43, 7) = 0 THEN 8 ELSE BitAnd(c.reg_nr43, 7) * 16)
    * 2 ^ (c.reg_nr43 \div 16)

\* EnvelopeModulation::reset_envelope
reset_envelope(c, reg) ==
    [c EXCEPT !.current_volume = reg \div 16, !.envelope_timer = BitAnd(reg, 7)]

\* EnvelopeModulation::volume_step
volume_step(c, reg) ==
    IF BitAnd(reg, 7) = 0 THEN c
    ELSE IF c.envelope_timer = 0 THEN c
    ELSE IF c.envelope_timer - 1 # 0 THEN [c EXCEPT !.envelope_timer = @ - 1]
    ELSE [c EXCEPT !.envelope_timer = BitAnd(reg, 7),
                   !.current_volume =
                       IF @ < 15 /\ is_set(reg, 8) THEN @ + 1
                       ELSE IF @ > 0 /\ ~is_set(reg, 8) THEN @ - 1
                       ELSE @]

\* LengthModulation::length_step
length_step(c, reg) ==
    IF LengthEnabled(reg) /\ c.length_counter > 0
    THEN [c EXCEPT !.length_counter = @ - 1,
                   !.enabled = IF c.length_counter - 1 = 0 THEN FALSE ELSE @]
    ELSE c

\* the reload of the length counter in trigger
TriggerLength(c, reg, capacity) ==
    IF c.length_counter = 0
    THEN [c EXCEPT !.length_counter =
                       IF LengthEnabled(reg) /\ c.length_half_period
                       THEN capacity - 1 ELSE capacity]
    ELSE c

\* the write of NRx4 before the register is stored: the extra length clock
LengthEnableClock(c, reg, value) ==
    IF c.length_half_period /\ ~LengthEnabled(reg) /\ LengthEnabled(value)
       /\ c.length_counter > 0
    THEN [c EXCEPT !.length_counter = @ - 1,
                   !.enabled = IF c.length_counter - 1 = 0 THEN FALSE ELSE @]
    ELSE c

sweep_period(c) == BitAnd(c.reg_nr10 \div 16, 7)

is_sweep_decreasing(c) == is_set(c.reg_nr10, 8)

sweep_shift(c) == BitAnd(c.reg_nr10, 7)

\* the value returned by SweepModulation::calculate_sweep_frequency
SweepFrequency(c) ==
    IF is_sweep_decreasing(c)
    THEN c.shadow_frequency - c.shadow_frequency \div 2 ^ sweep_shift(c)
    ELSE c.shadow_frequency + c.shadow_frequency \div 2 ^ sweep_shift(c)

\* SweepModulation::calculate_sweep_frequency: the channel it leaves
calculate_sweep_frequency(c) ==
    [c EXCEPT !.sweep_was_decreasing = IF is_sweep_decreasing(c) THEN TRUE ELSE @,
              !.enabled = IF SweepFrequency(c) > 2047 THEN FALSE ELSE @]

\* SweepModulation::reset_sweep, after the shadow frequency is loaded
SweepReload(c) ==
    [c EXCEPT !.sweep_timer = IF sweep_period(c) > 0 THEN sweep_period(c) ELSE 8,
              !.sweep_enabled = sweep_period(c) # 0 \/ sweep_shift(c) # 0]

\* SweepModulation::reset_sweep
reset_sweep(c) ==
    IF sweep_shift(c) > 0
    THEN calculate_sweep_frequency(
             SweepReload([c EXCEPT !.sweep_was_decreasing = FALSE,
                                   !.shadow_frequency =
                                       WaveFrequency(c.reg_nr14, c.reg_nr13)]))
    ELSE SweepReload([c EXCEPT !.sweep_was_decreasing = FALSE,
                               !.shadow_frequency =
                                   WaveFrequency(c.reg_nr14, c.reg_nr13)])

\* Channel1: Clock::set_frequency
set_frequency(c, value) ==
    [c EXCEPT !.reg_nr14 = BitOr(BitAnd(@, 248), BitAnd(value \div 256, 7)),
              !.reg_nr13 = value % 256]

\* SweepModulation::sweep_step, once the timer has reached 0 and is reloaded
SweepApply(c) ==
    IF c.sweep_enabled /\ sweep_period(c) > 0
    THEN IF SweepFrequency(c) <= 2047 /\ sweep_shift(c) # 0
         THEN calculate_sweep_frequency(
                  set_frequency([calculate_sweep_frequency(c)
                                     EXCEPT !.shadow_frequency = SweepFrequency(c)],
                                SweepFrequency(c)))
         ELSE calculate_sweep_frequency(c)
    ELSE c

\* SweepModulation::sweep_step
sweep_step(c) ==
    IF c.sweep_timer > 1 THEN [c EXCEPT !.sweep_timer = @ - 1]
    ELSE SweepApply([c EXCEPT !.sweep_timer =
                                  IF sweep_period(c) > 0 THEN sweep_period(c) ELSE 8])

\* Step for T: WaveModulation + Channel, on channels 1 and 2
WaveStep(c, period) ==
    IF c.frequency_timer - 1 = 0
    THEN [c EXCEPT !.frequency_timer = period, !.wave_cursor = (@ + 1) % 8]
    ELSE [c EXCEPT !.frequency_timer = @ - 1]

Ch1Step(c) == WaveStep(c, WavePeriod(c.reg_nr14, c.reg_nr13))

Ch2Step(c) == WaveStep(c, WavePeriod(c.reg_nr24, c.reg_nr23))

\* Channel3::inc_wave_cursor
Ch3IncWaveCursor(c) ==
    [c EXCEPT !.wave_cursor = (@ + 1) % 32,
              !.current_wave_sample = MemGet(c.wave_ram, ((c.wave_cursor + 1) % 32) \div 2),
              !.wave_just_read = TRUE]

\* Step for T: WaveModulation + Channel, on channel 3
Ch3Step(c) ==
    IF c.frequency_timer - 1 = 0
    THEN Ch3IncWaveCursor([c EXCEPT !.frequency_timer = Ch3Period(c)])
    ELSE [c EXCEPT !.frequency_timer = @ - 1]

\* v | (x << n) and (v & !(1 << n)) | (x << n), for a bit x and bit = 2^n
OrBit(v, bit, x) == IF (v \div bit) % 2 = 1 THEN v ELSE v + x * bit
PutBit(v, bit, x) == v - ((v \div bit) % 2) * bit + x * bit

\* Channel4::step, the shift of the LFSR: x is bit 0 xor bit 1
LfsrShift(lfsr, width_mode) ==
    IF width_mode
    THEN PutBit(OrBit(lfsr \div 2, 16384, (lfsr + lfsr \div 2) % 2), 64,
                (lfsr + lfsr \div 2) % 2)
    ELSE OrBit(lfsr \div 2, 16384, (lfsr + lfsr \div 2) % 2)

\* Channel4::step
Ch4Step(c) ==
    IF c.frequency_timer = 0
    THEN [c EXCEPT !.frequency_timer = Ch4Frequency(c) - 1,
                   !.lfsr = LfsrShift(@, is_set(c.reg_nr43, 8))]
    ELSE [c EXCEPT !.frequency_timer = @ - 1]

\* Channel1::trigger enabling the channel whatever its DAC
Ch1TriggerAlways(c) ==
    reset_sweep(
        reset_envelope(
            [TriggerLength([c EXCEPT !.enabled = TRUE], c.reg_nr14, 64)
                EXCEPT !.frequency_timer = WavePeriod(c.reg_nr14, c.reg_nr13)],
            c.reg_nr12))

\* Channel1::trigger
Ch1Trigger(c) ==
    reset_sweep(
        reset_envelope(
            [TriggerLength([c EXCEPT !.enabled = IF EnvelopeDac(c.reg_nr12) THEN TRUE ELSE @],
                           c.reg_nr14, 64)
                EXCEPT !.frequency_timer = WavePeriod(c.reg_nr14, c.reg_nr13)],
            c.reg_nr12))

\* Channel2::trigger
Ch2Trigger(c) ==
    [reset_envelope(
         [TriggerLength([c EXCEPT !.enabled = IF EnvelopeDac(c.reg_nr22) THEN TRUE ELSE @],
                        c.reg_nr24, 64)
             EXCEPT !.frequency_timer = WavePeriod(c.reg_nr24, c.reg_nr23)],
         c.reg_nr22)
        EXCEPT !.wave_cursor = 0]

\* Channel3::trigger
Ch3Trigger(c) ==
    [TriggerLength([c EXCEPT !.enabled = IF Ch3Dac(c) THEN TRUE ELSE @],
                   c.reg_nr34, 256)
        EXCEPT !.frequency_timer = (Ch3Period(c) + 6) % 65536,
               !.wave_cursor = 0]

\* Channel4::trigger
Ch4Trigger(c) ==
    [reset_envelope(
         TriggerLength([c EXCEPT !.enabled = IF EnvelopeDac(c.reg_nr42) THEN TRUE ELSE @],
                       c.reg_nr44, 64),
         c.reg_nr42)
        EXCEPT !.lfsr = 32767]

\* Channel1::write
Ch1Write(c, address, value) ==
    CASE address = REG_NR10_ADDR ->
           [c EXCEPT !.reg_nr10 = value,
                     !.enabled = IF ~is_set(value, 8) /\ c.sweep_was_decreasing
                                 THEN FALSE ELSE @]
      [] address = REG_NR11_ADDR ->
           [c EXCEPT !.length_counter = 64 - BitAnd(value, 63), !.reg_nr11 = value]
      [] address = REG_NR12_ADDR ->
           [c EXCEPT !.reg_nr12 = value,
                     !.enabled = IF ~EnvelopeDac(value) THEN FALSE ELSE @]
      [] address = REG_NR13_ADDR -> [c EXCEPT !.reg_nr13 = value]
      [] address = REG_NR14_ADDR ->
           IF is_set(value, 128)
           THEN Ch1Trigger([LengthEnableClock(c, c.reg_nr14, value) EXCEPT !.reg_nr14 = value])
           ELSE [LengthEnableClock(c, c.reg_nr14, value) EXCEPT !.reg_nr14 = value]

\* Channel2::write
Ch2Write(c, address, value) ==
    CASE address = REG_NR21_ADDR ->
           [c EXCEPT !.length_counter = 64 - BitAnd(value, 63), !.reg_nr21 = value]
      [] address = REG_NR22_ADDR ->
           [c EXCEPT !.reg_nr22 = value,
                     !.enabled = IF ~EnvelopeDac(value) THEN FALSE ELSE @]
      [] address = REG_NR23_ADDR -> [c EXCEPT !.reg_nr23 = value]
      [] address = REG_NR24_ADDR ->
           IF is_set(value, 128)
           THEN Ch2Trigger([LengthEnableClock(c, c.reg_nr24, value) EXCEPT !.reg_nr24 = value])
           ELSE [LengthEnableClock(c, c.reg_nr24, value) EXCEPT !.reg_nr24 = value]

\* Channel3::write, the wave RAM
Ch3WriteWave(c, address, value) ==
    IF c.enabled
    THEN IF c.wave_just_read
         THEN [c EXCEPT !.wave_ram = MemSet(@, c.wave_cursor \div 2, value)]
         ELSE c
    ELSE [c EXCEPT !.wave_ram = MemSet(@, address - WAVE_PATTERN_RAM_START, value)]

\* Channel3::write
Ch3Write(c, address, value) ==
    CASE address = REG_NR30_ADDR ->
           [c EXCEPT !.reg_nr30 = value,
                     !.enabled = IF ~is_set(value, 128) THEN FALSE ELSE @]
      [] address = REG_NR31_ADDR ->
           [c EXCEPT !.length_counter = 256 - value, !.reg_nr31 = value]
      [] address = REG_NR32_ADDR -> [c EXCEPT !.reg_nr32 = value]
      [] address = REG_NR33_ADDR -> [c EXCEPT !.reg_nr33 = value]
      [] address = REG_NR34_ADDR ->
           IF is_set(value, 128)
           THEN Ch3Trigger([LengthEnableClock(c, c.reg_nr34, value) EXCEPT !.reg_nr34 = value])
           ELSE [LengthEnableClock(c, c.reg_nr34, value) EXCEPT !.reg_nr34 = value]
      [] OTHER -> Ch3WriteWave(c, address, value)

\* Channel4::write
Ch4Write(c, address, value) ==
    CASE address = REG_NR41_ADDR ->
           [c EXCEPT !.length_counter = 64 - BitAnd(value, 63), !.reg_nr41 = value]
      [] address = REG_NR42_ADDR ->
           [c EXCEPT !.reg_nr42 = value,
                     !.enabled = IF ~EnvelopeDac(value) THEN FALSE ELSE @]
      [] address = REG_NR43_ADDR -> [c EXCEPT !.reg_nr43 = value]
      [] address = REG_NR44_ADDR ->
           IF is_set(value, 128)
           THEN Ch4Trigger([LengthEnableClock(c, c.reg_nr44, value) EXCEPT !.reg_nr44 = value])
           ELSE [LengthEnableClock(c, c.reg_nr44, value) EXCEPT !.reg_nr44 = value]

\* Channel1::read to Channel4::read
Ch1Read(c, address) ==
    CASE address = REG_NR10_ADDR -> BitOr(c.reg_nr10, 128)
      [] address = REG_NR11_ADDR -> BitOr(c.reg_nr11, 63)
      [] address = REG_NR12_ADDR -> c.reg_nr12
      [] address = REG_NR13_ADDR -> 255
      [] address = REG_NR14_ADDR -> BitOr(c.reg_nr14, 191)

Ch2Read(c, address) ==
    CASE address = REG_NR21_ADDR -> BitOr(c.reg_nr21, 63)
      [] address = REG_NR22_ADDR -> c.reg_nr22
      [] address = REG_NR23_ADDR -> 255
      [] address = REG_NR24_ADDR -> BitOr(c.reg_nr24, 191)

Ch3Read(c, address) ==
    CASE address = REG_NR30_ADDR -> BitOr(c.reg_nr30, 127)
      [] address = REG_NR31_ADDR -> 255
      [] address = REG_NR32_ADDR -> BitOr(c.reg_nr32, 159)
      [] address = REG_NR33_ADDR -> 255
      [] address = REG_NR34_ADDR -> BitOr(c.reg_nr34, 191)
      [] OTHER -> IF c.enabled
                  THEN IF ~c.wave_just_read THEN 255
                       ELSE MemGet(c.wave_ram, c.wave_cursor \div 2)
                  ELSE MemGet(c.wave_ram, address - WAVE_PATTERN_RAM_START)

Ch4Read(c, address) ==
    CASE address = REG_NR41_ADDR -> 255
      [] address = REG_NR42_ADDR -> c.reg_nr42
      [] address = REG_NR43_ADDR -> c.reg_nr43
      [] address = REG_NR44_ADDR -> BitOr(c.reg_nr44, 191)

\* the channel an address of the sound region belongs to, 0 if none
ChannelOf(address) ==
    CASE InRange(address, REG_NR10_ADDR, REG_NR14_ADDR) -> 1
      [] InRange(address, REG_NR21_ADDR, REG_NR24_ADDR) -> 2
      [] InRange(address, REG_NR30_ADDR, REG_NR34_ADDR) -> 3
      [] InRange(address, WAVE_PATTERN_RAM_START, WAVE_PATTERN_RAM_END) -> 3
      [] InRange(address, REG_NR41_ADDR, REG_NR44_ADDR) -> 4
      [] OTHER -> 0

BoolBit(b) == IF b THEN 1 ELSE 0

\* Apu::read
ApuRead(a, address) ==
    CASE ChannelOf(address) = 1 -> Ch1Read(a.channel_1, address)
      [] ChannelOf(address) = 2 -> Ch2Read(a.channel_2, address)
      [] ChannelOf(address) = 3 -> Ch3Read(a.channel_3, address)
      [] ChannelOf(address) = 4 -> Ch4Read(a.channel_4, address)
      [] address = REG_NR50_ADDR -> a.reg_nr50
      [] address = REG_NR51_ADDR -> a.reg_nr51
      [] address = REG_NR52_ADDR ->
           BitAnd(a.reg_nr52, 128) + 112
           + BoolBit(a.channel_1.enabled) + 2 * BoolBit(a.channel_2.enabled)
           + 4 * BoolBit(a.channel_3.enabled) + 8 * BoolBit(a.channel_4.enabled)
      [] OTHER -> 255

\* Apu::write, the arms of the match other than NR52
ApuWriteReg(a, address, value) ==
    CASE ChannelOf(address) = 1 -> [a EXCEPT !.channel_1 = Ch1Write(@, address, value)]
      [] ChannelOf(address) = 2 -> [a EXCEPT !.channel_2 = Ch2Write(@, address, value)]
      [] ChannelOf(address) = 3 -> [a EXCEPT !.channel_3 = Ch3Write(@, address, value)]
      [] ChannelOf(address) = 4 -> [a EXCEPT !.channel_4 = Ch4Write(@, address, value)]
      [] address = REG_NR50_ADDR -> [a EXCEPT !.reg_nr50 = value]
      [] address = REG_NR51_ADDR -> [a EXCEPT !.reg_nr51 = value]
      [] OTHER -> a

RECURSIVE PowerOffWrites(_, _)
\* the loop goes on from an APU that has been written
PowerOffNext(a, addr) == IF a.fs_step >= 0 THEN PowerOffWrites(a, addr) ELSE a

\* for addr in REG_NR10_ADDR..REG_NR52_ADDR { self.write(addr, 0x00) }, made
\* while the APU is still on
PowerOffWrites(a, addr) ==
    IF addr >= REG_NR52_ADDR THEN a
    ELSE PowerOffNext(ApuWriteReg(a, addr, 0), addr + 1)

\* the length counters left as the writes of the power-off have set them
RestoreNothing(a, saved) == a

\* the four length counters of a are those of saved
RestoreLength(a, saved) ==
    [a EXCEPT !.channel_1.length_counter = saved.channel_1.length_counter % 256,
              !.channel_2.length_counter = saved.channel_2.length_counter % 256,
              !.channel_3.length_counter = saved.channel_3.length_counter,
              !.channel_4.length_counter = saved.channel_4.length_counter % 256]

\* Apu::write, the NR52 arm
ApuWritePower(a, value) ==
    IF is_set(value, 128) /\ ~ApuIsEnabled(a)
    THEN [RestoreLength(a, a) EXCEPT !.fs_step = 0, !.reg_nr52 = BitAnd(value, 128)]
    ELSE IF ~is_set(value, 128) /\ ApuIsEnabled(a)
    THEN [RestoreLength(PowerOffWrites(a, REG_NR10_ADDR), a)
             EXCEPT !.reg_nr52 = BitAnd(value, 128)]
    ELSE [RestoreLength(a, a) EXCEPT !.reg_nr52 = BitAnd(value, 128)]

\* the guard of Apu::write: the addresses let through while the APU is off
OffWritable(address) ==
    \/ InRange(address, WAVE_PATTERN_RAM_START, WAVE_PATTERN_RAM_START)
    \/ address \in {REG_NR11_ADDR, REG_NR21_ADDR, REG_NR31_ADDR, REG_NR41_ADDR,
                    REG_NR52_ADDR}

\* Apu::write
ApuWrite(a, address, value) ==
    IF ~ApuIsEnabled(a) /\ ~OffWritable(address) THEN a
    ELSE IF address = REG_NR52_ADDR THEN ApuWritePower(a, value)
    ELSE ApuWriteReg(a, address, value)

\* Apu::handle_fs_step, the clocks of the step
FsClocks(a) ==
    IF a.fs_step % 2 = 0
    THEN [a EXCEPT !.channel_1 =
                       IF a.fs_step = 2 \/ a.fs_step = 6
                       THEN sweep_step(length_step(@, @.reg_nr14))
                       ELSE length_step(@, @.reg_nr14),
                   !.channel_2 = length_step(@, @.reg_nr24),
                   !.channel_3 = length_step(@, @.reg_nr34),
                   !.channel_4 = length_step(@, @.reg_nr44)]
    ELSE IF a.fs_step = 7
    THEN [a EXCEPT !.channel_1 = volume_step(@, @.reg_nr12),
                   !.channel_2 = volume_step(@, @.reg_nr22),
                   !.channel_4 = volume_step(@, @.reg_nr42)]
    ELSE a

\* Apu::handle_fs_step
handle_fs_step(a) ==
    [FsClocks([a EXCEPT !.channel_1.length_half_period = a.fs_step % 2 = 0,
                        !.channel_2.length_half_period = a.fs_step % 2 = 0,
                        !.channel_3.length_half_period = a.fs_step % 2 = 0,
                        !.channel_4.length_half_period = a.fs_step % 2 = 0])
        EXCEPT !.fs_step = (@ + 1) % 8]

\* Apu::step, the tick counter and the steps of the channels.  ticks is a
\* u32 and wraps at 2^32, a multiple of the period of the frame sequencer;
\* the counter stays far below that here.
ChannelsStep(a) ==
    [a EXCEPT !.ticks = @ + 1,
              !.channel_1 = Ch1Step(@),
              !.channel_2 = Ch2Step(@),
              !.channel_3 = Ch3Step([@ EXCEPT !.wave_just_read = FALSE]),
              !.channel_4 = Ch4Step(@)]

\* Apu::step, the frame sequencer
FsDue(a) == IF a.ticks % FRAME_SEQUENCER_PERIOD = 0 THEN handle_fs_step(a) ELSE a

\* Apu::step
ApuStep(a) == FsDue(ChannelsStep(a))

\* n calls of Step::step on channel 1 or 2, n >= 1: the timer counts down to
\* 0 once, then once every period, and the cursor advances each time
WaveStepN(c, period, n) ==
    IF n < c.frequency_timer THEN [c EXCEPT !.frequency_timer = @ - n]
    ELSE [c EXCEPT !.frequency_timer = period - ((n - c.frequency_timer) % period),
                   !.wave_cursor = (@ + 1 + (n - c.frequency_timer) \div period) % 8]

\* n calls of Step::step on channel 3, each after wave_just_read = false
Ch3StepN(c, n) ==
    IF n < c.frequency_timer
    THEN [c EXCEPT !.frequency_timer = @ - n, !.wave_just_read = FALSE]
    ELSE [c EXCEPT !.frequency_timer =
                       Ch3Period(c) - ((n - c.frequency_timer) % Ch3Period(c)),
                   !.wave_cursor =
                       (@ + 1 + (n - c.frequency_timer) \div Ch3Period(c)) % 32,
                   !.current_wave_sample =
                       MemGet(c.wave_ram,
                              ((c.wave_cursor + 1
                                + (n - c.frequency_timer) \div Ch3Period(c)) % 32) \div 2),
                   !.wave_just_read = (n - c.frequency_timer) % Ch3Period(c) = 0]

RECURSIVE LfsrShiftN(_, _, _)
\* k shifts of the LFSR: the first half of them, then the others
LfsrShiftN(lfsr, width_mode, k) ==
    IF k = 0 \/ lfsr < 0 THEN lfsr
    ELSE IF k = 1 THEN LfsrShift(lfsr, width_mode)
    ELSE LfsrShiftN(LfsrShiftN(lfsr, width_mode, k \div 2), width_mode, k - k \div 2)

\* n calls of Channel4::step: the call that finds the timer at 0 reloads it
\* and shifts the LFSR
Ch4StepN(c, n) ==
    IF n <= c.frequency_timer THEN [c EXCEPT !.frequency_timer = @ - n]
    ELSE [c EXCEPT !.frequency_timer =
                       Ch4Frequency(c) - 1 - ((n - c.frequency_timer - 1) % Ch4Frequency(c)),
                   !.lfsr = LfsrShiftN(@, is_set(c.reg_nr43, 8),
                                       1 + (n - c.frequency_timer - 1) \div Ch4Frequency(c))]

\* n calls of Apu::step, the tick counter and the steps of the channels
ChannelsStepN(a, n) ==
    [a EXCEPT !.ticks = @ + n,
              !.channel_1 = WaveStepN(@, WavePeriod(@.reg_nr14, @.reg_nr13), n),
              !.channel_2 = WaveStepN(@, WavePeriod(@.reg_nr24, @.reg_nr23), n),
              !.channel_3 = Ch3StepN(@, n),
              !.channel_4 = Ch4StepN(@, n)]

\* the calls of Apu::step up to the next one that steps the frame
\* sequencer, that one included
ApuRun(a) ==
    handle_fs_step(
        ChannelsStepN(a, FRAME_SEQUENCER_PERIOD - (a.ticks % FRAME_SEQUENCER_PERIOD)))

----------------------------------------------------------------------------
(* Cartridge: Rom and the bank controllers (rom/rom.rs, rom/mbc.rs)        *)
(*                                                                         *)
(* The image is an input.  Of the image the model keeps its length, its    *)
(* cartridge-type byte, and the bytes it may hold where the CPU fetches:   *)
(* ops at opcode positions, imm8 and imm16 at operand positions, jp at the *)
(* operand of a jump.  A read that lands in the image takes the byte found *)
(* there as a parameter, romv.                                             *)

DEFAULT_RAM_BANK == 0
DEFAULT_ROM_BANK == 1
RAM_ENABLE_END == 8191
ROM_BANK_SEL_END == 16383
RAM_BANK_SEL_END == 24575
ROM_REGION_BANK0_END == 16383
ROM_REGION_BANKN_START == 16384
ROM_BANK_SIZE == 16384
RAM_BANK_SIZE == 8192

Mbc0 == [kind |-> "Mbc0"]

Mbc1New ==
    [kind |-> "Mbc1", eram |-> EmptyMem, ram_enabled |-> FALSE,
     ram_bank |-> DEFAULT_RAM_BANK, rom_bank |-> DEFAULT_ROM_BANK,
     ram_bank_mode |-> FALSE]

Mbc3New ==
    [kind |-> "Mbc3", ram_timer_enabled |-> FALSE, rom_bank |-> DEFAULT_ROM_BANK,
     ram_bank |-> DEFAULT_RAM_BANK, reg_rtc |-> 0, rtc_mode |-> FALSE,
     eram |-> EmptyMem]

\* Mbc1::set_rom_bank without the arm that adds one
set_rom_bank_plain(m, bank) == [m EXCEPT !.rom_bank = bank]

\* Mbc1::set_rom_bank
set_rom_bank(m, bank) ==
    [m EXCEPT !.rom_bank = IF bank \in {0, 32, 64, 96} THEN bank + 1 ELSE bank]

\* the index into the image that a read of the switchable bank uses
BankNIndex(m, address) ==
    (address - ROM_REGION_BANKN_START) + ROM_BANK_SIZE * m.rom_bank

\* the index into eram of an access that leaves ram_bank out
EramIndexFlat(m, address) == address - ERAM_REGION_START

\* the index into eram that an access to external RAM uses
EramIndex(m, address) ==
    (address - ERAM_REGION_START) + RAM_BANK_SIZE * m.ram_bank

\* MbcController::read: the index is past the end of the image
MbcReadPanic(m, storage, address) ==
    /\ m.kind \in {"Mbc1", "Mbc3"}
    /\ InRange(address, ROM_REGION_BANKN_START, ROM_REGION_END)
    /\ BankNIndex(m, address) >= storage.len

Mbc0Read(storage, address, romv) ==
    IF InRange(address, ROM_REGION_START, ROM_REGION_END) THEN romv ELSE 255

Mbc1Read(m, storage, address, romv) ==
    IF InRange(address, ROM_REGION_START, ROM_REGION_END) THEN romv
    ELSE IF m.ram_enabled THEN MemGet(m.eram, EramIndex(m, address))
    ELSE 255

Mbc3Read(m, storage, address, romv) ==
    IF InRange(address, ROM_REGION_START, ROM_REGION_END) THEN romv
    ELSE IF m.ram_timer_enabled
         THEN IF m.rtc_mode THEN m.reg_rtc
              ELSE MemGet(m.eram, EramIndex(m, address))
    ELSE 255

Mbc1Write(m, address, value) ==
    CASE InRange(address, 0, RAM_ENABLE_END) ->
            [m EXCEPT !.ram_enabled = (BitAnd(value, 10) = 10)]
      [] InRange(address, RAM_ENABLE_END + 1, ROM_BANK_SEL_END) ->
            set_rom_bank(m, BitOr(BitAnd(m.rom_bank, 224), BitAnd(value, 31)))
      [] InRange(address, ROM_BANK_SEL_END + 1, RAM_BANK_SEL_END) ->
            IF m.ram_bank_mode THEN [m EXCEPT !.ram_bank = BitAnd(value, 3)]
            ELSE set_rom_bank(m, BitOr(BitAnd(value, 3) * 32, m.rom_bank))
      [] InRange(address, RAM_BANK_SEL_END + 1, ROM_REGION_END) ->
            [m EXCEPT !.ram_bank_mode = is_set(value, 1)]
      [] InRange(address, ERAM_REGION_START, ERAM_REGION_END) ->
            IF m.ram_enabled
            THEN [m EXCEPT !.eram = MemSet(m.eram, EramIndex(m, address), value)]
            ELSE m
      [] OTHER -> m

Mbc3Write(m, address, value) ==
    CASE InRange(address, 0, RAM_ENABLE_END) ->
            [m EXCEPT !.ram_timer_enabled = (BitAnd(value, 10) = 10)]
      [] InRange(address, RAM_ENABLE_END + 1, ROM_BANK_SEL_END) ->
            [m EXCEPT !.rom_bank = value]
      [] InRange(address, ROM_BANK_SEL_END + 1, RAM_BANK_SEL_END) ->
            IF value <= 3 THEN [m EXCEPT !.rtc_mode = FALSE, !.ram_bank = value]
            ELSE IF InRange(value, 8, 12) THEN [m EXCEPT !.rtc_mode = TRUE]
            ELSE m
      [] InRange(address, ERAM_REGION_START, ERAM_REGION_END) ->
            IF m.ram_timer_enabled
            THEN IF m.rtc_mode THEN [m EXCEPT !.reg_rtc = value]
                 ELSE [m EXCEPT !.eram = MemSet(m.eram, EramIndex(m, address), value)]
            ELSE m
      [] OTHER -> m

\* Rom::read and Rom::write dispatch on the controller
RomRead(r, address, romv) ==
    CASE r.mbc_ctrl.kind = "Mbc0" -> Mbc0Read(r.storage, address, romv)
      [] r.mbc_ctrl.kind = "Mbc1" -> Mbc1Read(r.mbc_ctrl, r.storage, address, romv)
      [] r.mbc_ctrl.kind = "Mbc3" -> Mbc3Read(r.mbc_ctrl, r.storage, address, romv)

RomWrite(r, address, value) ==
    CASE r.mbc_ctrl.kind = "Mbc0" -> r
      [] r.mbc_ctrl.kind = "Mbc1" ->
            [r EXCEPT !.mbc_ctrl = Mbc1Write(r.mbc_ctrl, address, value)]
      [] r.mbc_ctrl.kind = "Mbc3" ->
            [r EXCEPT !.mbc_ctrl = Mbc3Write(r.mbc_ctrl, address, value)]

----------------------------------------------------------------------------
(* Ram<SIZE>: plain storage indexed by the offset the bus passes           *)

RamRead(m, offset) == MemGet(m, offset)
RamWrite(m, offset, value) == MemSet(m, offset, value)

----------------------------------------------------------------------------
(* Bus (bus.rs)                                                            *)
(*                                                                         *)
(* A bus value b bundles the devices.  b.panic is "none" until an access   *)
(* reaches an arm that aborts; from then on the bus is left as it is.      *)

Bus ==
    [apu |-> apu, joypad |-> joypad, ppu |-> ppu, serial |-> serial,
     timer |-> timer, rom |-> rom, it |-> it, wram |-> wram, hram |-> hram,
     panic |-> panic]

\* the device that Bus::read and Bus::write select for an address
Decode(address) ==
    CASE InRange(address, ROM_REGION_START, ROM_REGION_END) -> "rom"
      [] InRange(address, VRAM_REGION_START, VRAM_REGION_END) -> "ppu"
      [] InRange(address, ERAM_REGION_START, ERAM_REGION_END) -> "rom"
      [] InRange(address, WRAM_REGION_START, WRAM_REGION_END) -> "wram"
      [] InRange(address, ECHORAM_REGION_START, ECHORAM_REGION_END) -> "echo"
      [] InRange(address, OAM_REGION_START, OAM_REGION_END) -> "ppu"
      [] address = IO_JOYPAD_REGION -> "joypad"
      [] InRange(address, IO_SERIAL_REGION_START, IO_SERIAL_REGION_END) -> "serial"
      [] InRange(address, IO_TIMER_REGION_START, IO_TIMER_REGION_END) -> "timer"
      [] InRange(address, IO_SOUND_REGION_START, IO_SOUND_REGION_END) -> "apu"
      [] InRange(address, IO_PPU_REGION_START, IO_PPU_REGION_END) -> "ppu"
      [] InRange(address, HRAM_REGION_START, HRAM_REGION_END) -> "hram"
      [] address \in {REG_IF_ADDR, REG_IE_ADDR} -> "it"
      [] OTHER -> "none"

\* Bus::read; the value read
BusRead(b, address, romv) ==
    LET dev == Decode(address)
    IN  CASE dev = "rom" -> RomRead(b.rom, address, romv)
          [] dev = "ppu" -> PpuRead(b.ppu, address)
          [] dev = "wram" -> RamRead(b.wram, address - WRAM_REGION_START)
          [] dev = "echo" -> RamRead(b.wram, address - ECHORAM_REGION_START)
          [] dev = "joypad" -> JoypadRead(b.joypad)
          [] dev = "serial" -> SerialRead(b.serial, address)
          [] dev = "timer" -> TimerRead(b.timer, address)
          [] dev = "apu" -> ApuRead(b.apu, address)
          [] dev = "hram" -> RamRead(b.hram, address - HRAM_REGION_START)
          [] dev = "it" -> ItRead(b.it, address)
          [] OTHER -> 255

\* Bus::read; the abort it runs into, if any
BusReadPanic(b, address) ==
    IF Decode(address) = "rom" /\ MbcReadPanic(b.rom.mbc_ctrl, b.rom.storage, address)
    THEN "index out of bounds" ELSE "none"

\* the bus after a read: unchanged unless the read aborts
BusAfterRead(b, address) ==
    IF b.panic = "none" THEN [b EXCEPT !.panic = BusReadPanic(b, address)] ELSE b

\* Bus::write
BusWrite(b, address, value) ==
    LET dev == Decode(address)
    IN  IF b.panic # "none" THEN b
        ELSE CASE dev = "rom" -> [b EXCEPT !.rom = RomWrite(b.rom, address, value)]
               [] dev = "ppu" ->
                    IF PpuWriteHandles(address)
                    THEN [b EXCEPT !.ppu = PpuWrite(b.ppu, address, value)]
                    ELSE [b EXCEPT !.panic = "unreachable"]
               [] dev = "wram" ->
                    [b EXCEPT !.wram = RamWrite(b.wram, address - WRAM_REGION_START, value)]
               [] dev = "echo" ->
                    [b EXCEPT !.wram = RamWrite(b.wram, address - ECHORAM_REGION_START, value)]
               [] dev = "joypad" -> [b EXCEPT !.joypad = JoypadWrite(b.joypad, value)]
               [] dev = "serial" -> [b EXCEPT !.serial = SerialWrite(b.serial, address, value)]
               [] dev = "timer" -> [b EXCEPT !.timer = TimerWrite(b.timer, address, value)]
               [] dev = "apu" -> [b EXCEPT !.apu = ApuWrite(b.apu, address, value)]
               [] dev = "hram" ->
                    [b EXCEPT !.hram = RamWrite(b.hram, address - HRAM_REGION_START, value)]
               [] dev = "it" -> [b EXCEPT !.it = ItWrite(b.it, address, value)]
               [] OTHER -> b

----------------------------------------------------------------------------
(* Cpu (cpu.rs)                                                            *)
(*                                                                         *)
(* A machine value m is the pair [cpu, bus] that Cpu::step works on.       *)

IR_VBLANK_ADDR == 64
IR_LCDC_STATUS_ADDR == 72
IR_TIMER_OVERFLOW_ADDR == 80
IR_SERIAL_TRANSFER_ADDR == 88
IR_JOYPAD_PRESS_ADDR == 96

DEFAULT_REG_A == 1
DEFAULT_REG_F == 176
DEFAULT_REG_B == 0
DEFAULT_REG_C == 19
DEFAULT_REG_D == 0
DEFAULT_REG_E == 216
DEFAULT_REG_H == 1
DEFAULT_REG_L == 77
DEFAULT_SP == 65534
DEFAULT_PC == 256

\* the opcodes of decode_execute that the model executes
OP_NOP == 0
OP_LD_C_N == 14
OP_STOP == 16
OP_LD_HL_NN == 33
OP_CPL == 47
OP_LD_HL_N == 54
OP_SCF == 55
OP_LD_A_N == 62
OP_CCF == 63
OP_HALT == 118
OP_XOR_A == 175
OP_JP == 195
OP_PUSH_BC == 197
OP_RETI == 217
OP_LDH_N_A == 224
OP_LD_NN_A == 234
OP_POP_AF == 241
OP_DI == 243
OP_PUSH_AF == 245
OP_LD_A_NN == 250
OP_EI == 251

Repertoire ==
    {OP_NOP, OP_LD_C_N, OP_LD_HL_NN, OP_CPL, OP_LD_HL_N, OP_SCF, OP_CCF, OP_HALT,
     OP_XOR_A, OP_JP, OP_PUSH_BC, OP_RETI, OP_LDH_N_A, OP_POP_AF, OP_DI,
     OP_PUSH_AF, OP_EI, OP_LD_A_N, OP_LD_NN_A, OP_LD_A_NN, OP_STOP}

\* the flags of register F
FLAG_ZERO == 128
FLAG_SUBSTRACT == 64
FLAG_HALF_CARRY == 32
FLAG_CARRY == 16

CpuNew ==
    [a |-> DEFAULT_REG_A, f |-> DEFAULT_REG_F, b |-> DEFAULT_REG_B,
     c |-> DEFAULT_REG_C, d |-> DEFAULT_REG_D, e |-> DEFAULT_REG_E,
     h |-> DEFAULT_REG_H, l |-> DEFAULT_REG_L,
     sp |-> DEFAULT_SP, pc |-> DEFAULT_PC,
     halted |-> FALSE, stopped |-> FALSE,
     master_ie |-> TRUE, enabling_ie |-> FALSE]

hl(c) == make_u16(c.h, c.l)
af(c) == make_u16(c.a, c.f)
bc(c) == make_u16(c.b, c.c)

\* set_af: a from the high byte, f from the low byte
set_af(c, value) == [c EXCEPT !.a = HiByte(value), !.f = LoByte(value)]

\* set_flag: set or reset flag in F
set_flag(c, flag, set) ==
    [c EXCEPT !.f = IF set THEN BitOr(@, flag) ELSE BitAnd(@, BitNot(flag))]

\* xor with A itself
xor_a(c) ==
    set_flag(set_flag(set_flag(set_flag([c EXCEPT !.a = 0], FLAG_ZERO, TRUE),
                               FLAG_SUBSTRACT, FALSE),
                      FLAG_HALF_CARRY, FALSE),
             FLAG_CARRY, FALSE)

\* cpl, ccf (self.f ^= FLAG_CARRY) and scf
cpl(c) ==
    set_flag(set_flag([c EXCEPT !.a = 255 - @], FLAG_SUBSTRACT, TRUE),
             FLAG_HALF_CARRY, TRUE)

ccf(c) ==
    set_flag(set_flag([c EXCEPT !.f = IF is_set(@, FLAG_CARRY) THEN @ - FLAG_CARRY
                                      ELSE @ + FLAG_CARRY],
                      FLAG_SUBSTRACT, FALSE),
             FLAG_HALF_CARRY, FALSE)

scf(c) ==
    set_flag(set_flag(set_flag(c, FLAG_CARRY, TRUE), FLAG_SUBSTRACT, FALSE),
             FLAG_HALF_CARRY, FALSE)

\* fetch: the byte at pc, and the machine with pc advanced
FetchByte(m, romv) == BusRead(m.bus, m.cpu.pc, romv)
AfterFetch(m) ==
    [m EXCEPT !.bus = BusAfterRead(m.bus, m.cpu.pc),
              !.cpu.pc = WrapAdd16(m.cpu.pc, 1)]

\* fetch16: low byte first; romw is the word the image holds at pc
Fetch16(m, romw) ==
    LET lo == FetchByte(m, LoByte(romw))
        m1 == AfterFetch(m)
        hi == FetchByte(m1, HiByte(romw))
    IN  [m |-> AfterFetch(m1), value |-> make_u16(hi, lo)]

\* push: high byte at sp - 1, low byte at sp - 2
push(m, value) ==
    LET sp1 == WrapSub16(m.cpu.sp, 1)
        sp2 == WrapSub16(sp1, 1)
        b1 == BusWrite(m.bus, sp1, HiByte(value))
        b2 == BusWrite(b1, sp2, LoByte(value))
    IN  [m EXCEPT !.cpu.sp = sp2, !.bus = b2]

\* pop: low byte at sp, high byte at sp + 1
pop(m, romv) ==
    LET sp1 == WrapAdd16(m.cpu.sp, 1)
        lo == BusRead(m.bus, m.cpu.sp, romv)
        b1 == BusAfterRead(m.bus, m.cpu.sp)
        hi == BusRead(b1, sp1, romv)
        b2 == BusAfterRead(b1, sp1)
    IN  [m |-> [m EXCEPT !.cpu.sp = WrapAdd16(sp1, 1), !.bus = b2],
         value |-> make_u16(hi, lo)]

\* POP AF that keeps the whole of the low byte
pop_af_whole(m, romv) ==
    [pop(m, romv).m EXCEPT !.cpu = set_af(@, pop(m, romv).value)]

\* POP AF (0xF1): set_af(rr & 0xFFF0)
pop_af(m, romv) ==
    [pop(m, romv).m EXCEPT !.cpu = set_af(@, BitAnd(pop(m, romv).value, 65520))]

\* LD (nn), A that stores nothing
ld_nn_a_lost(m, romw) == Fetch16(m, romw).m

\* LD (nn), A (0xEA): bus.write(nn, self.a)
ld_nn_a(m, romw) ==
    [Fetch16(m, romw).m EXCEPT
        !.bus = BusWrite(@, Fetch16(m, romw).value, Fetch16(m, romw).m.cpu.a)]

\* LD A, (nn) (0xFA): self.a = bus.read(nn); a read of the cartridge gives
\* romv
ld_a_nn(m, romw, romv) ==
    [Fetch16(m, romw).m EXCEPT
        !.cpu.a = BusRead(Fetch16(m, romw).m.bus, Fetch16(m, romw).value, romv),
        !.bus = BusAfterRead(@, Fetch16(m, romw).value)]

\* call: save pc and jump
call(m, address) == [push(m, m.cpu.pc) EXCEPT !.cpu.pc = address]

\* DI (0xF3) and EI (0xFB)
di(m) == [m EXCEPT !.cpu.enabling_ie = FALSE, !.cpu.master_ie = FALSE]

ei_immediate(m) == [m EXCEPT !.cpu.master_ie = TRUE]

ei(m) == [m EXCEPT !.cpu.enabling_ie = TRUE]

\* decode_execute for the opcodes of Repertoire; m has pc past the opcode,
\* imm.n and imm.nn are what the image holds at the operand position
decode_execute(m, op, imm) ==
    CASE op = OP_NOP -> [m |-> m, ticks |-> 4]
      [] op = OP_HALT -> [m |-> [m EXCEPT !.cpu.halted = TRUE], ticks |-> 4]
      [] op = OP_STOP -> [m |-> [AfterFetch(m) EXCEPT !.cpu.stopped = TRUE], ticks |-> 4]
      [] op = OP_LD_HL_NN ->
            LET f16 == Fetch16(m, imm.nn)
            IN  [m |-> [f16.m EXCEPT !.cpu.h = HiByte(f16.value),
                                     !.cpu.l = LoByte(f16.value)],
                 ticks |-> 12]
      [] op = OP_LD_HL_N ->
            LET n == FetchByte(m, imm.n)
                m1 == AfterFetch(m)
            IN  [m |-> [m1 EXCEPT !.bus = BusWrite(m1.bus, hl(m1.cpu), n)],
                 ticks |-> 12]
      [] op = OP_LDH_N_A ->
            LET n == FetchByte(m, imm.n)
                m1 == AfterFetch(m)
            IN  [m |-> [m1 EXCEPT !.bus = BusWrite(m1.bus, IO_REGION_START + n,
                                                   m1.cpu.a)],
                 ticks |-> 12]
      [] op = OP_JP ->
            LET f16 == Fetch16(m, imm.nn)
            IN  [m |-> [f16.m EXCEPT !.cpu.pc = f16.value], ticks |-> 12]
      [] op = OP_RETI ->
            LET p == pop(m, imm.n)
            IN  [m |-> [p.m EXCEPT !.cpu.pc = p.value, !.cpu.master_ie = TRUE],
                 ticks |-> 8]
      [] op = OP_LD_C_N ->
            [m |-> [AfterFetch(m) EXCEPT !.cpu.c = FetchByte(m, imm.n)], ticks |-> 8]
      [] op = OP_LD_A_N ->
            [m |-> [AfterFetch(m) EXCEPT !.cpu.a = FetchByte(m, imm.n)], ticks |-> 8]
      [] op = OP_LD_NN_A -> [m |-> ld_nn_a(m, imm.nn), ticks |-> 16]
      [] op = OP_LD_A_NN -> [m |-> ld_a_nn(m, imm.nn, imm.n), ticks |-> 16]
      [] op = OP_CPL -> [m |-> [m EXCEPT !.cpu = cpl(@)], ticks |-> 4]
      [] op = OP_SCF -> [m |-> [m EXCEPT !.cpu = scf(@)], ticks |-> 4]
      [] op = OP_CCF -> [m |-> [m EXCEPT !.cpu = ccf(@)], ticks |-> 4]
      [] op = OP_XOR_A -> [m |-> [m EXCEPT !.cpu = xor_a(@)], ticks |-> 4]
      [] op = OP_PUSH_AF -> [m |-> push(m, af(m.cpu)), ticks |-> 16]
      [] op = OP_PUSH_BC -> [m |-> push(m, bc(m.cpu)), ticks |-> 16]
      [] op = OP_POP_AF -> [m |-> pop_af(m, imm.n), ticks |-> 12]
      [] op = OP_DI -> [m |-> di(m), ticks |-> 4]
      [] op = OP_EI -> [m |-> ei(m), ticks |-> 4]

\* the last of the five that is both enabled and flagged
FirstInterruptReversed(int_enable, int_flag) ==
    LET hit(f) == BitAnd(int_enable, f) # 0 /\ BitAnd(int_flag, f) # 0
    IN  CASE hit(Flag_Joypad) -> Flag_Joypad
          [] ~hit(Flag_Joypad) /\ hit(Flag_Serial) -> Flag_Serial
          [] ~hit(Flag_Joypad) /\ ~hit(Flag_Serial) /\ hit(Flag_TimerOverflow) ->
                Flag_TimerOverflow
          [] ~hit(Flag_Joypad) /\ ~hit(Flag_Serial) /\ ~hit(Flag_TimerOverflow)
             /\ hit(Flag_Lcdc) -> Flag_Lcdc
          [] ~hit(Flag_Joypad) /\ ~hit(Flag_Serial) /\ ~hit(Flag_TimerOverflow)
             /\ ~hit(Flag_Lcdc) /\ hit(Flag_Vblank) -> Flag_Vblank
          [] OTHER -> 0

\* the interrupt that the check of Cpu::step takes: the first of the five,
\* in the order of the || chain, that is both enabled and flagged; 0 if none
FirstInterrupt(int_enable, int_flag) ==
    LET hit(f) == BitAnd(int_enable, f) # 0 /\ BitAnd(int_flag, f) # 0
    IN  CASE hit(Flag_Vblank) -> Flag_Vblank
          [] ~hit(Flag_Vblank) /\ hit(Flag_Lcdc) -> Flag_Lcdc
          [] ~hit(Flag_Vblank) /\ ~hit(Flag_Lcdc) /\ hit(Flag_TimerOverflow) ->
                Flag_TimerOverflow
          [] ~hit(Flag_Vblank) /\ ~hit(Flag_Lcdc) /\ ~hit(Flag_TimerOverflow)
             /\ hit(Flag_Serial) -> Flag_Serial
          [] ~hit(Flag_Vblank) /\ ~hit(Flag_Lcdc) /\ ~hit(Flag_TimerOverflow)
             /\ ~hit(Flag_Serial) /\ hit(Flag_Joypad) -> Flag_Joypad
          [] OTHER -> 0

VectorOf(f) ==
    CASE f = Flag_Vblank -> IR_VBLANK_ADDR
      [] f = Flag_Lcdc -> IR_LCDC_STATUS_ADDR
      [] f = Flag_TimerOverflow -> IR_TIMER_OVERFLOW_ADDR
      [] f = Flag_Serial -> IR_SERIAL_TRANSFER_ADDR
      [] f = Flag_Joypad -> IR_JOYPAD_PRESS_ADDR

\* handle_interrupt!, taken
handle_interrupt(m, f) ==
    LET m1 == call(m, VectorOf(f))
    IN  [m1 EXCEPT !.bus.it = ItClear(m1.bus.it, f),
                   !.cpu.halted = FALSE,
                   !.cpu.master_ie = FALSE]

\* the halted branch of Cpu::step
HaltedStep(m) ==
    LET pending_it == BusRead(m.bus, REG_IF_ADDR, 0)
    IN  [m |-> [m EXCEPT !.cpu.halted = IF pending_it # 0 THEN FALSE ELSE m.cpu.halted],
         ticks |-> 4]

\* the end of Cpu::step: enabling_ie sets master_ie
ApplyEnablingIe(m) ==
    [m EXCEPT !.cpu.master_ie = IF m.cpu.enabling_ie THEN TRUE ELSE m.cpu.master_ie]

\* Cpu::step.  romop is the byte of the image at pc.  The result carries the
\* machine after the step (m), the value returned (ticks), the opcode run
\* (-1 in the halted branch), the machine as the interrupt check found it
\* (chk) and the flag of the interrupt taken (serviced, 0 if none).
\* StepExecute is the first statement of step (the instruction, or the
\* halted branch), InterruptTaken the interrupt its check takes on the
\* machine that statement leaves, StepCheck the check and the enabling_ie
\* statement after it.
StepExecute(m0, romop, imm) ==
    IF ~m0.cpu.halted
    THEN decode_execute(AfterFetch(m0), FetchByte(m0, romop), imm)
    ELSE HaltedStep(m0)

InterruptTaken(m1) ==
    IF m1.cpu.master_ie
    THEN FirstInterrupt(BusRead(m1.bus, REG_IE_ADDR, 0),
                        BusRead(m1.bus, REG_IF_ADDR, 0))
    ELSE 0

StepCheck(m1, f) ==
    ApplyEnablingIe(IF f # 0 THEN handle_interrupt(m1, f) ELSE m1)

StepFinish(ex, op) ==
    [m |-> StepCheck(ex.m, InterruptTaken(ex.m)), ticks |-> ex.ticks,
     op |-> op, chk |-> ex.m, serviced |-> InterruptTaken(ex.m)]

CpuStepResult(c, b, romop, imm) ==
    StepFinish(StepExecute([cpu |-> c, bus |-> b], romop, imm),
               IF c.halted THEN -1 ELSE FetchByte([cpu |-> c, bus |-> b], romop))

----------------------------------------------------------------------------
(* Bounds of the exploration                                               *)

\* the image is free in the first MaxRun bytes after each entry point; past
\* them it holds a jump back to the start of the program
MaxRun == 2
\* interrupt frames on the stack
MaxDepth == 1
\* bytes sent to the serial output
MaxOut == 2

EntryPoints ==
    {IR_VBLANK_ADDR, IR_LCDC_STATUS_ADDR, IR_TIMER_OVERFLOW_ADDR,
     IR_SERIAL_TRANSFER_ADDR, IR_JOYPAD_PRESS_ADDR, DEFAULT_PC}

InWindow(pc) == \E e \in EntryPoints : e <= pc /\ pc < e + MaxRun

\* the opcodes the image may hold at pc
OpsAt(storage, pc) == IF InWindow(pc) THEN storage.ops ELSE {OP_JP}

\* the operands the image may hold after an opcode
Operands(storage, op) ==
    CASE op = OP_JP -> {[n |-> 0, nn |-> t] : t \in storage.jp}
      [] op = OP_LD_HL_NN -> {[n |-> 0, nn |-> w] : w \in storage.imm16}
      [] op = OP_LD_HL_N -> {[n |-> v, nn |-> 0] : v \in storage.imm8}
      [] op = OP_LD_C_N -> {[n |-> v, nn |-> 0] : v \in storage.imm8}
      [] op = OP_LD_A_N -> {[n |-> v, nn |-> 0] : v \in storage.imm8}
      [] op = OP_LD_NN_A -> {[n |-> 0, nn |-> w] : w \in storage.imm16}
      [] op = OP_LD_A_NN -> {[n |-> 0, nn |-> w] : w \in storage.imm16}
      [] op = OP_LDH_N_A -> {[n |-> v, nn |-> 0] : v \in storage.ldh}
      [] OTHER -> {[n |-> 0, nn |-> 0]}

----------------------------------------------------------------------------
(* System (system.rs)                                                      *)

\* no call made from outside yet
NoCall == [op |-> "none"]

\* System::new: every device as constructed, around a loaded cartridge
Power(storage, mbc, ih) ==
    /\ cpu = CpuNew
    /\ it = ih
    /\ serial = SerialNew
    /\ timer = TimerNew
    /\ joypad = JoypadNew
    /\ ppu = PpuNew
    /\ apu = ApuNew
    /\ rom = [storage |-> storage, mbc_ctrl |-> mbc]
    /\ wram = EmptyMem
    /\ hram = EmptyMem
    /\ sys = [at |-> "cpu", ticks |-> 0, n_cpu |-> 0, n_ppu |-> 0,
              n_timer |-> 0, n_serial |-> 0, n_dma |-> 0, ret |-> 0]
    /\ cpu_ev = [op |-> -2, serviced |-> 0, ime_in |-> TRUE, after_ei |-> FALSE,
                 ime_chk |-> TRUE, if_chk |-> 0, ie_chk |-> 0,
                 pc_chk |-> 0, sp_chk |-> 0]
    /\ serial_output = << >>
    /\ loaded = [len |-> storage.len, ctype |-> storage.ctype, result |-> "Ok"]
    /\ bus_ev = NoCall
    /\ panic = "none"

\* the interrupts one Ppu::step may request: Vblank at the end of line 143,
\* Lcdc only when STAT selects a source (bits 3 to 6)
PpuInterrupts(p) ==
    {0, Flag_Vblank}
    \cup (IF BitAnd(p.reg_stat, 120) # 0
          THEN {Flag_Lcdc, BitOr(Flag_Vblank, Flag_Lcdc)} ELSE {})

\* the interrupt one Timer::step may request: only with the timer enabled
TimerInterrupts(t) ==
    IF is_set(t.reg_tac, FLAG_TIMER_ENABLED) THEN {0, Flag_TimerOverflow} ELSE {0}

\* the loop of System::step: for _ in 0..ticks { ppu.step; timer.step }.
\* l carries the interrupt handler and the number of calls made so far; pr
\* and tr are what a Ppu::step and a Timer::step request.  The dot counter
\* and the timer counters are not advanced here; a tick is what it may do
\* to the interrupt handler.
LoopAgainInclusive(i, ticks) == i <= ticks

LoopAgain(i, ticks) == i < ticks

RECURSIVE TickLoop(_, _, _, _, _)
TickLoop(l, i, ticks, pr, tr) ==
    IF LoopAgain(i, ticks)
    THEN TickLoop([it |-> ItRequest(ItRequest(l.it, pr), tr),
                   n_ppu |-> l.n_ppu + 1, n_timer |-> l.n_timer + 1],
                  i + 1, ticks, pr, tr)
    ELSE l

\* the system after a Cpu::step with result r: the machine it leaves, and
\* the record of what it did; an abort leaves only the abort
CpuStepTo(r) ==
    /\ r.op \in Repertoire \cup {-1}
    /\ InRange(r.m.cpu.sp, DEFAULT_SP - 2 * MaxDepth, DEFAULT_SP)
    /\ IF r.m.bus.panic # "none"
       THEN /\ panic' = r.m.bus.panic
            /\ UNCHANGED << cpu, it, serial, timer, joypad, ppu, apu, rom,
                            wram, hram, sys, cpu_ev >>
       ELSE /\ cpu' = r.m.cpu
            /\ it' = r.m.bus.it
            /\ serial' = r.m.bus.serial
            /\ timer' = r.m.bus.timer
            /\ joypad' = r.m.bus.joypad
            /\ ppu' = r.m.bus.ppu
            /\ apu' = r.m.bus.apu
            /\ rom' = r.m.bus.rom
            /\ wram' = r.m.bus.wram
            /\ hram' = r.m.bus.hram
            /\ sys' = [at |-> "tick",
                       ticks |-> r.ticks, n_cpu |-> 1, n_ppu |-> 0,
                       n_timer |-> 0, n_serial |-> 0, n_dma |-> 0,
                       ret |-> sys.ret]
            /\ cpu_ev' = [op |-> r.op, serviced |-> r.serviced,
                          ime_in |-> cpu.master_ie,
                          after_ei |-> (cpu_ev.op = OP_EI /\ ~cpu_ev.ime_in),
                          ime_chk |-> r.chk.cpu.master_ie,
                          if_chk |-> r.chk.bus.it.reg_if,
                          ie_chk |-> r.chk.bus.it.reg_ie,
                          pc_chk |-> r.chk.cpu.pc,
                          sp_chk |-> r.chk.cpu.sp]
            /\ panic' = panic

\* System::step, the call of Cpu::step
CpuStep ==
    /\ panic = "none"
    /\ sys.at = "cpu"
    /\ Len(serial_output) < MaxOut
    /\ \E romop \in OpsAt(rom.storage, cpu.pc) : \E imm \in Operands(rom.storage, romop) :
         CpuStepTo(CpuStepResult(cpu, Bus, romop, imm))
    /\ UNCHANGED << serial_output, loaded, bus_ev >>

\* System::step, the loop over the ticks
PeripheralTicks ==
    /\ panic = "none"
    /\ sys.at = "tick"
    /\ \E pr \in PpuInterrupts(ppu) : \E tr \in TimerInterrupts(timer) :
         LET l == TickLoop([it |-> it, n_ppu |-> 0, n_timer |-> 0],
                           0, sys.ticks, pr, tr)
         IN  /\ it' = l.it
             /\ sys' = [sys EXCEPT !.at = "serial",
                                   !.n_ppu = l.n_ppu, !.n_timer = l.n_timer]
    /\ UNCHANGED << cpu, serial, timer, joypad, ppu, apu, rom, wram, hram,
                    cpu_ev, serial_output, loaded, bus_ev, panic >>

\* System::step, the call of Serial::step
SerialStep ==
    /\ panic = "none"
    /\ sys.at = "serial"
    /\ LET t == SerialTick(serial)
       IN  /\ serial' = t.serial
           /\ serial_output' = serial_output \o t.sent
           /\ it' = ItRequest(it, t.irq)
    /\ sys' = [sys EXCEPT !.at = "dma", !.n_serial = sys.n_serial + 1]
    /\ UNCHANGED << cpu, timer, joypad, ppu, apu, rom, wram, hram,
                    cpu_ev, loaded, bus_ev, panic >>

\* System::step, the call of Bus::dma_tick, and the return
DmaTick ==
    /\ panic = "none"
    /\ sys.at = "dma"
    /\ IF ~is_dma_active(ppu)
       THEN /\ sys' = [sys EXCEPT !.at = "cpu", !.ret = sys.ticks]
            /\ UNCHANGED << ppu, panic >>
       ELSE \E romv \in rom.storage.data :
              IF BusReadPanic(Bus, dma_source(ppu)) # "none"
              THEN /\ panic' = BusReadPanic(Bus, dma_source(ppu))
                   /\ UNCHANGED << ppu, sys >>
              ELSE /\ ppu' = dma_write(ppu, BusRead(Bus, dma_source(ppu), romv))
                   /\ sys' = [sys EXCEPT !.at = "cpu", !.ret = sys.ticks,
                                         !.n_dma = sys.n_dma + 1]
                   /\ panic' = panic
    /\ UNCHANGED << cpu, it, serial, timer, joypad, apu, rom, wram, hram,
                    cpu_ev, serial_output, loaded, bus_ev >>

Next == CpuStep \/ PeripheralTicks \/ SerialStep \/ DmaTick

\* a cartridge whose code handles interrupts: it writes register A (0x01) to
\* IF and IE, halts, and enables, disables and returns from interrupts
ImageIrq ==
    [len |-> ROM_REGION_SIZE, ctype |-> 0,
     ops |-> {OP_NOP, OP_LDH_N_A, OP_HALT, OP_RETI, OP_DI, OP_EI},
     imm8 |-> {}, imm16 |-> {}, ldh |-> {LoByte(REG_IF_ADDR), LoByte(REG_IE_ADDR)},
     jp |-> {DEFAULT_PC}, data |-> {0}]

Init == Power(ImageIrq, Mbc0, InterruptHandlerNew)

Spec == Init /\ [][Next]_vars

\* a cartridge of NOPs, run with IF and IE as a boot program has left them:
\* IF keeps the three top bits it is constructed with, any of the five
\* requests may be pending and any of the five may be enabled
MaxIrq == 31

ImageNop ==
    [len |-> ROM_REGION_SIZE, ctype |-> 0, ops |-> {OP_NOP},
     imm8 |-> {}, imm16 |-> {}, ldh |-> {}, jp |-> {DEFAULT_PC}, data |-> {0}]

InitIrq ==
    \E f \in 0..MaxIrq : \E e \in 0..MaxIrq :
       Power(ImageNop, Mbc0,
             [reg_if |-> BitOr(BitAnd(DEFAULT_REG_DMG_IF, 224), f), reg_ie |-> e])

SpecIrq == InitIrq /\ [][Next]_vars

----------------------------------------------------------------------------
(* Properties of Cpu::step                                                 *)

\* Cpu::step has just returned: cpu_ev describes that call
Stepped == panic = "none" /\ sys.at = "tick"

\* the requests both flagged and enabled at the interrupt check
PendingAtCheck == BitAnd(BitAnd(cpu_ev.if_chk, cpu_ev.ie_chk), 31)

\* the lowest bit index set in a non-zero five-bit value
LowestIndex(x) ==
    CHOOSE i \in 0..4 : /\ (x \div (2 ^ i)) % 2 = 1
                        /\ \A j \in 0..(i - 1) : (x \div (2 ^ j)) % 2 = 0

\* C3: when ime is set at the interrupt check and IF & IE has one of bits
\* 0-4 set, the step services exactly the request with the lowest bit index:
\* the PC of the check is on the stack, PC is 0x0040 + 8 * index, and IF is
\* what it was at the check with that one bit cleared.
C3_LowestPendingServiced ==
    (Stepped /\ cpu_ev.ime_chk /\ PendingAtCheck # 0) =>
        LET i == LowestIndex(PendingAtCheck)
        IN  /\ cpu_ev.serviced = 2 ^ i
            /\ cpu.pc = 64 + 8 * i
            /\ cpu.sp = WrapSub16(cpu_ev.sp_chk, 2)
            /\ BusRead(Bus, cpu.sp, 0) = LoByte(cpu_ev.pc_chk)
            /\ BusRead(Bus, WrapAdd16(cpu.sp, 1), 0) = HiByte(cpu_ev.pc_chk)
            /\ it.reg_if = cpu_ev.if_chk - 2 ^ i

\* a step that services the timer request while the serial and the joypad
\* requests are pending and enabled too
C3_Witness ==
    /\ Stepped
    /\ cpu_ev.ime_chk
    /\ PendingAtCheck = 28
    /\ cpu_ev.serviced = Flag_TimerOverflow
    /\ cpu.pc = IR_TIMER_OVERFLOW_ADDR

\* C4, as stated: a step that services an interrupt ends with ime cleared.
C4_ServiceClearsIme ==
    (Stepped /\ cpu_ev.serviced # 0) => ~cpu.master_ie

\* C5, first part: with ime clear, the step that executes EI services nothing.
C5_NoServiceInEiStep ==
    (Stepped /\ cpu_ev.op = OP_EI /\ ~cpu_ev.ime_in) => cpu_ev.serviced = 0

\* C5, second part: the step after that EI fetches and executes an
\* instruction, and what it may push is the PC after that instruction.
C5_NextInstructionFirst ==
    (Stepped /\ cpu_ev.after_ei) =>
        /\ cpu_ev.op \in Repertoire
        /\ cpu_ev.serviced # 0 =>
               /\ BusRead(Bus, cpu.sp, 0) = LoByte(cpu_ev.pc_chk)
               /\ BusRead(Bus, WrapAdd16(cpu.sp, 1), 0) = HiByte(cpu_ev.pc_chk)

C6_HaltedStays ==
    (Stepped /\ cpu_ev.op = -1 /\ BitAnd(cpu_ev.if_chk, 31) = 0) =>
        /\ sys.ticks = 4
        /\ cpu.pc = cpu_ev.pc_chk
        /\ cpu.halted

----------------------------------------------------------------------------
(* The serial port under a program that writes SB and SC                   *)

\* a cartridge whose code stores 0x41 or 0x81 to SB or SC
ImageSerial ==
    [len |-> ROM_REGION_SIZE, ctype |-> 0,
     ops |-> {OP_NOP, OP_LD_HL_NN, OP_LD_HL_N},
     imm8 |-> {65, 129}, imm16 |-> {REG_SB_ADDR, REG_SC_ADDR}, ldh |-> {},
     jp |-> {DEFAULT_PC}, data |-> {0}]

InitSerial == Power(ImageSerial, Mbc0, InterruptHandlerNew)

SpecSerial == InitSerial /\ [][Next]_vars

\* the CPU step taken from this state stores value to address
CpuStores(address, value) ==
    /\ sys.at = "cpu"
    /\ sys'.at = "tick"
    /\ cpu_ev'.op = OP_LD_HL_N
    /\ hl(cpu) = address
    /\ BusRead(Bus', address, 0) = value

\* the Serial tick of System::step is taken from this state
SerialTicks == sys.at = "serial" /\ sys'.at = "dma"

\* C8: a store of 0x81 to SC leaves SC at 0x81 for the Serial tick of the
\* same System::step; a Serial tick that finds both the transfer-start and
\* the internal-clock bit set sends exactly one byte, SB, clears SC bit 7
\* and requests the Serial interrupt; a Serial tick that finds either bit
\* clear sends nothing, so that nothing more is sent until SC is written
\* again with both bits.
C8_SerialTransfer ==
    [][ /\ CpuStores(REG_SC_ADDR, 129) => serial'.reg_sc = 129
        /\ (SerialTicks /\ serial.reg_sc = 129) =>
               /\ serial_output' = Append(serial_output, serial.reg_sb)
               /\ serial'.reg_sc = 1
               /\ serial'.reg_sb = serial.reg_sb
               /\ is_set(it'.reg_if, Flag_Serial)
        /\ (SerialTicks /\ ~is_set(serial.reg_sc, 129)) =>
               /\ serial_output' = serial_output
               /\ serial' = serial
               /\ it' = it
        /\ ~SerialTicks => serial_output' = serial_output ]_vars

\* 0x41 has gone out: SB was 0x41 when SC was written with 0x81, the tick
\* after the write has cleared bit 7 and the Serial interrupt is requested
C8_Witness ==
    /\ sys.at = "dma"
    /\ cpu_ev.op = OP_LD_HL_N
    /\ hl(cpu) = REG_SC_ADDR
    /\ serial_output = << 65 >>
    /\ serial.reg_sc = 1
    /\ is_set(it.reg_if, Flag_Serial)

----------------------------------------------------------------------------
(* OAM DMA under a program that writes work RAM, OAM and the DMA register  *)

\* a cartridge whose code stores 0xC0 to the first byte of work RAM, to the
\* first byte of OAM or to the DMA register: a transfer copies from 0xC000
ImageDma ==
    [len |-> ROM_REGION_SIZE, ctype |-> 0,
     ops |-> {OP_NOP, OP_LD_HL_NN, OP_LD_HL_N},
     imm8 |-> {192}, imm16 |-> {WRAM_REGION_START, OAM_REGION_START, REG_DMA_ADDR},
     ldh |-> {}, jp |-> {DEFAULT_PC}, data |-> {0}]

InitDma == Power(ImageDma, Mbc0, InterruptHandlerNew)

SpecDma == InitDma /\ [][Next]_vars

\* System::step has returned
Returned == panic = "none" /\ sys.at = "cpu" /\ sys.n_cpu = 1

\* C1: within a System::step the CPU step has returned before the first
\* peripheral tick; the PPU and the timer are ticked exactly as many times
\* as the cycles the CPU returned, and before the serial port; the serial
\* port is ticked once, before DMA; DMA copies at most one byte; and the step
\* returns the cycles of the CPU.
C1_StepOrder ==
    /\ sys.at = "tick" =>
          /\ sys.n_cpu = 1 /\ sys.n_ppu = 0 /\ sys.n_timer = 0
          /\ sys.n_serial = 0 /\ sys.n_dma = 0
    /\ sys.at = "serial" =>
          /\ sys.n_cpu = 1 /\ sys.n_ppu = sys.ticks /\ sys.n_timer = sys.ticks
          /\ sys.n_serial = 0 /\ sys.n_dma = 0
    /\ sys.at = "dma" =>
          /\ sys.n_cpu = 1 /\ sys.n_ppu = sys.ticks /\ sys.n_timer = sys.ticks
          /\ sys.n_serial = 1 /\ sys.n_dma = 0
    /\ Returned =>
          /\ sys.n_ppu = sys.ticks /\ sys.n_timer = sys.ticks
          /\ sys.n_serial = 1 /\ sys.n_dma \in {0, 1}
          /\ sys.ret = sys.ticks
          /\ sys.ticks = (IF cpu_ev.op \in {OP_LD_HL_NN, OP_LD_HL_N, OP_JP}
                          THEN 12 ELSE 4)

\* a step of 12 cycles has returned 12 after 12 ticks of the PPU and of the
\* timer, one of the serial port and one byte of DMA
C1_Witness ==
    /\ Returned
    /\ cpu_ev.op = OP_LD_HL_N
    /\ sys.ret = 12
    /\ sys.n_ppu = 12
    /\ sys.n_timer = 12
    /\ sys.n_serial = 1
    /\ sys.n_dma = 1

\* the DMA tick of System::step is taken from this state
DmaTicks == sys.at = "dma" /\ sys'.at = "cpu"

\* C9: a store of v to the DMA register leaves a transfer active at index 0
\* with source page v; the DMA tick of an active transfer at index i copies
\* the byte at v * 256 + i to OAM[i], changes no other byte of OAM and moves
\* to index i + 1, the transfer ending with index 159; the DMA tick of an
\* inactive transfer changes nothing; an active transfer has an index below
\* 160.
C9_DmaTransfer ==
    [][ /\ CpuStores(REG_DMA_ADDR, 192) =>
               /\ ppu'.dma_active
               /\ ppu'.dma_idx = 0
               /\ ppu'.reg_dma = 192
        /\ (DmaTicks /\ ppu.dma_active) =>
               /\ ppu.dma_idx < 160
               /\ \A i \in 0..159 :
                     MemGet(ppu'.oam, i) =
                        IF i = ppu.dma_idx
                        THEN BusRead(Bus, ppu.reg_dma * 256 + i, 0)
                        ELSE MemGet(ppu.oam, i)
               /\ ppu'.dma_idx = ppu.dma_idx + 1
               /\ ppu'.dma_active = (ppu.dma_idx < 159)
               /\ ppu'.reg_dma = ppu.reg_dma
               /\ sys'.n_dma = 1
        /\ (DmaTicks /\ ~ppu.dma_active) => (ppu' = ppu /\ sys'.n_dma = 0) ]_vars

\* a transfer from 0xC000 has run to its end and has copied the 0xC0 that
\* work RAM holds at 0xC000 to OAM[0]
C9_Witness ==
    /\ Returned
    /\ ~ppu.dma_active
    /\ ppu.dma_idx = 160
    /\ ppu.reg_dma = 192
    /\ MemGet(wram, 0) = 192
    /\ MemGet(ppu.oam, 0) = 192

\* C10, as stated: a CPU step taken while a transfer is active leaves every
\* byte of OAM as it was.
C10_OamHeldByDma ==
    [][ (sys.at = "cpu" /\ sys'.at = "tick" /\ ppu.dma_active) =>
            ppu'.oam = ppu.oam ]_vars

----------------------------------------------------------------------------
(* Rom::load and System::load_bin (rom.rs, system.rs)                      *)

\* the controller Rom::load builds for the type code at 0x0147 of the
\* header; "none" for the codes that take the _ arm of its match
MbcFor(ctype) ==
    CASE ctype = 0 -> Mbc0
      [] ctype \in {1, 2, 3} -> Mbc1New
      [] ctype \in {15, 16, 17, 18, 19} -> Mbc3New
      [] OTHER -> [kind |-> "none"]

\* an image of len bytes with the type code ctype in its header
Cartridge(len, ctype) == [ImageNop EXCEPT !.len = len, !.ctype = ctype]

\* the lengths of the images offered, around ROM_REGION_SIZE
RomLens == {ROM_REGION_SIZE - 1, ROM_REGION_SIZE}

\* the byte at 0x0147 of the images offered
CartridgeTypes == 0..255

\* System::load_bin: Rom::load, then on success System::reset and
\* Bus::set_rom.  A short image is an error and leaves the system as it is;
\* a type code without controller ends in unimplemented!().
LoadBin ==
    /\ panic = "none"
    /\ \E len \in RomLens : \E ctype \in CartridgeTypes :
         IF len < ROM_REGION_SIZE
         THEN /\ loaded' = [len |-> len, ctype |-> ctype, result |-> "InvalidRomSize"]
              /\ UNCHANGED << cpu, it, serial, timer, joypad, ppu, rom, panic >>
         ELSE IF MbcFor(ctype).kind = "none"
         THEN /\ loaded' = [len |-> len, ctype |-> ctype, result |-> "aborted"]
              /\ panic' = "unimplemented"
              /\ UNCHANGED << cpu, it, serial, timer, joypad, ppu, rom >>
         ELSE /\ loaded' = [len |-> len, ctype |-> ctype, result |-> "Ok"]
              /\ ppu' = PpuNew
              /\ timer' = TimerNew
              /\ serial' = SerialNew
              /\ joypad' = JoypadNew
              /\ it' = InterruptHandlerNew
              /\ cpu' = CpuNew
              /\ rom' = [storage |-> Cartridge(len, ctype), mbc_ctrl |-> MbcFor(ctype)]
              /\ panic' = panic
    /\ UNCHANGED << apu, wram, hram, sys, cpu_ev, serial_output, bus_ev >>

NextRom == LoadBin

InitRom == Power(Cartridge(ROM_REGION_SIZE, 0), Mbc0, InterruptHandlerNew)

SpecRom == InitRom /\ [][NextRom]_vars

\* the type codes of ROM-only, MBC1 and MBC3 cartridges
SupportedTypes == {0, 1, 2, 3, 15, 16, 17, 18, 19}

\* C7, as stated: a load never aborts; it returns Ok exactly for an image of
\* at least 32 KiB whose type is ROM-only, MBC1 or MBC3, and an error for
\* every other image.
C7_LoadReturns ==
    /\ panic = "none"
    /\ loaded.result \in {"Ok", "InvalidRomSize", "InvalidCartridge"}
    /\ loaded.result = "Ok" <=>
          (loaded.len >= 32768 /\ loaded.ctype \in SupportedTypes)

----------------------------------------------------------------------------
(* Bus::read and Bus::write over the memory map (bus.rs)                   *)

\* one address of every region and block of the map, the gaps included:
\* the ROM bank select and the switchable bank, VRAM, external RAM, work
\* RAM, its echo, OAM, the gap after OAM, P1, SB, the gap at 0xFF03, DIV,
\* IF, LCDC, LY, BGP, the gap after the PPU block, high RAM and IE
ProbeAddresses ==
    {8192, 16384, 32768, 40960, 49152, 57344, 65024, 65184, 65280, 65281,
     65283, 65284, 65295, 65344, 65348, 65351, 65356, 65408, 65535}

\* the byte written
ProbeValues == {90}

\* the bus becomes b
SetBus(b) ==
    /\ apu' = b.apu
    /\ joypad' = b.joypad
    /\ ppu' = b.ppu
    /\ serial' = b.serial
    /\ timer' = b.timer
    /\ rom' = b.rom
    /\ it' = b.it
    /\ wram' = b.wram
    /\ hram' = b.hram
    /\ panic' = b.panic

\* a call of Bus::write
BusWriteCall ==
    /\ panic = "none"
    /\ \E address \in ProbeAddresses : \E value \in ProbeValues :
         SetBus(BusWrite(Bus, address, value))
    /\ UNCHANGED << cpu, sys, cpu_ev, serial_output, loaded, bus_ev >>

\* a call of Bus::read
BusReadCall ==
    /\ panic = "none"
    /\ \E address \in ProbeAddresses : SetBus(BusAfterRead(Bus, address))
    /\ UNCHANGED << cpu, sys, cpu_ev, serial_output, loaded, bus_ev >>

NextBus == BusWriteCall \/ BusReadCall

\* a 32 KiB cartridge of each kind of controller
InitBus ==
    \E ctype \in {0, 1, 17} :
       Power(Cartridge(ROM_REGION_SIZE, ctype), MbcFor(ctype), InterruptHandlerNew)

SpecBus == InitBus /\ [][NextBus]_vars

\* C2, as stated: no read and no write through the bus aborts.
C2_BusNeverAborts == panic = "none"

----------------------------------------------------------------------------
(* The bank controllers behind Bus::write and Bus::read (rom/mbc.rs)       *)

\* the registers of a controller and two cells of external RAM: RAM enable,
\* ROM bank select, RAM bank select, banking mode, external RAM
MbcWriteAddresses == {0, 8192, 16384, 24576, 40960}

\* the bytes written to each of them
MbcValuesAt(address) ==
    CASE address = 0 -> {0, 10, 11}
      [] address = 8192 -> {0, 32, 64, 96, 128}
      [] address = 16384 -> {0, 2}
      [] address = 24576 -> {0, 1}
      [] OTHER -> {171, 205}

\* the switchable bank and external RAM
MbcReadAddresses == {16384, 40960}

\* the bank of the image that a read of the switchable bank lands in
\* (-1 for a read elsewhere)
BankRead(r, address) ==
    IF InRange(address, ROM_REGION_BANKN_START, ROM_REGION_END)
    THEN BankNIndex(r.mbc_ctrl, address) \div ROM_BANK_SIZE
    ELSE -1

\* the flag that gates external RAM: ram_enabled of Mbc1, ram_timer_enabled
\* of Mbc3
RamGate(m) == IF m.kind = "Mbc1" THEN m.ram_enabled ELSE m.ram_timer_enabled

\* the cells of external RAM written so far, each with the bank selected
\* at the write and the byte written last (history)
StoredBy(ev) == IF ev.op = "none" THEN {} ELSE ev.stored

\* the history after a write that lands in external RAM
Store(stored, bank, address, value) ==
    {s \in stored : ~(s.bank = bank /\ s.address = address)}
       \cup {[bank |-> bank, address |-> address, value |-> value]}

\* the write reaches the external RAM array
WritesEram(m, address) ==
    /\ InRange(address, ERAM_REGION_START, ERAM_REGION_END)
    /\ RamGate(m)
    /\ m.kind = "Mbc3" => ~m.rtc_mode

\* a call of Bus::write on the cartridge; gate_in is the RAM gate, eram_in
\* the external RAM and w_bank_in the rom_bank as the call found them
MbcWriteCall ==
    /\ panic = "none"
    /\ \E address \in MbcWriteAddresses : \E value \in MbcValuesAt(address) :
         /\ SetBus(BusWrite(Bus, address, value))
         /\ bus_ev' = [op |-> "write", address |-> address, value |-> value,
                       bank |-> -1, w_address |-> address, w_value |-> value,
                       w_bank_in |-> rom.mbc_ctrl.rom_bank,
                       w_gate_in |-> RamGate(rom.mbc_ctrl),
                       gate_in |-> RamGate(rom.mbc_ctrl),
                       eram_in |-> rom.mbc_ctrl.eram,
                       stored |-> IF WritesEram(rom.mbc_ctrl, address)
                                  THEN Store(StoredBy(bus_ev), rom.mbc_ctrl.ram_bank,
                                             address, value)
                                  ELSE StoredBy(bus_ev)]
    /\ UNCHANGED << cpu, sys, cpu_ev, serial_output, loaded >>

\* a call of Bus::read on the cartridge; the w_ fields are those of the
\* last write before it
MbcReadCall ==
    /\ panic = "none"
    /\ bus_ev.op # "none"
    /\ \E address \in MbcReadAddresses : \E romv \in rom.storage.data :
         /\ SetBus(BusAfterRead(Bus, address))
         /\ bus_ev' = [op |-> "read", address |-> address,
                       value |-> BusRead(Bus, address, romv),
                       bank |-> BankRead(rom, address),
                       w_address |-> bus_ev.w_address, w_value |-> bus_ev.w_value,
                       w_bank_in |-> bus_ev.w_bank_in,
                       w_gate_in |-> bus_ev.w_gate_in,
                       gate_in |-> RamGate(rom.mbc_ctrl),
                       eram_in |-> rom.mbc_ctrl.eram,
                       stored |-> bus_ev.stored]
    /\ UNCHANGED << cpu, sys, cpu_ev, serial_output, loaded >>

NextMbc == MbcWriteCall \/ MbcReadCall

\* an MBC1 and an MBC3 cartridge (with RAM and battery) of 128 banks
InitMbc ==
    \E ctype \in {3, 19} :
       Power(Cartridge(128 * ROM_BANK_SIZE, ctype), MbcFor(ctype), InterruptHandlerNew)

SpecMbc == InitMbc /\ [][NextMbc]_vars

\* the last call was a read of the switchable bank of an MBC1 cartridge, and
\* the last write before it put one of 0x00, 0x20, 0x40, 0x60 in the
\* ROM-bank register
ReadAfterBankWrite ==
    /\ rom.mbc_ctrl.kind = "Mbc1"
    /\ bus_ev.op = "read"
    /\ bus_ev.bank # -1
    /\ InRange(bus_ev.w_address, RAM_ENABLE_END + 1, ROM_BANK_SEL_END)
    /\ bus_ev.w_value \in {0, 32, 64, 96}

\* C15, as stated: on MBC1, the read of 0x4000-0x7FFF that follows a write
\* of w in {0x00, 0x20, 0x40, 0x60} to the ROM-bank register uses bank w+1.
C15_AsStated == ReadAfterBankWrite => bus_ev.bank = bus_ev.w_value + 1

\* C15, amended: on MBC1, the read of 0x4000-0x7FFF that follows a write of
\* w in {0x00, 0x20, 0x40, 0x60} to the ROM-bank register uses the bank
\* made of bits 5-7 of the rom_bank the write found, plus one.
C15_BankBump ==
    ReadAfterBankWrite => bus_ev.bank = BitAnd(bus_ev.w_bank_in, 224) + 1

\* C15: 0x40 written over bank 0x41, and bank 0x41 read
C15_Witness ==
    /\ ReadAfterBankWrite
    /\ bus_ev.w_value = 64
    /\ bus_ev.w_bank_in = 65
    /\ bus_ev.bank = 65

\* the last call was on external RAM of an MBC1 cartridge
EramCall(op) ==
    /\ rom.mbc_ctrl.kind = "Mbc1"
    /\ bus_ev.op = op
    /\ InRange(bus_ev.address, ERAM_REGION_START, ERAM_REGION_END)

\* C16: on MBC1, with external RAM disabled a read of 0xA000-0xBFFF returns
\* 0xFF and a write there leaves external RAM as it was; with it enabled a
\* read returns the byte last stored at that address in the selected bank,
\* whatever was done to the enable flag since.
C16_EramGate ==
    /\ (EramCall("read") /\ ~bus_ev.gate_in) => bus_ev.value = 255
    /\ (EramCall("write") /\ ~bus_ev.gate_in) => rom.mbc_ctrl.eram = bus_ev.eram_in
    /\ (EramCall("read") /\ bus_ev.gate_in) =>
          \A s \in bus_ev.stored :
             (s.bank = rom.mbc_ctrl.ram_bank /\ s.address = bus_ev.address)
                => bus_ev.value = s.value

\* C16: a byte stored in bank 2 is read back after external RAM was
\* disabled and enabled again
C16_Witness ==
    /\ EramCall("read")
    /\ bus_ev.gate_in
    /\ rom.mbc_ctrl.ram_bank = 2
    /\ bus_ev.value = 205
    /\ bus_ev.w_address = 0
    /\ ~bus_ev.w_gate_in
    /\ \E s \in bus_ev.stored : s.bank = 0 /\ s.value = 171

\* C17, as stated: after a write of v to 0x0000-0x1FFF on MBC1 or MBC3,
\* external RAM is enabled exactly when the low nibble of v is 0xA.
C17_EnableNibble ==
    (bus_ev.op = "write" /\ InRange(bus_ev.address, 0, RAM_ENABLE_END)) =>
        (RamGate(rom.mbc_ctrl) <=> bus_ev.value % 16 = 10)

\* C18, as stated: on MBC3, rom_bank stays within 0..0x7F.
C18_SevenBits ==
    rom.mbc_ctrl.kind = "Mbc3" => InRange(rom.mbc_ctrl.rom_bank, 0, 127)

----------------------------------------------------------------------------
(* Timer::step and the timer registers (timer.rs)                          *)

\* the calls of Timer::step followed
MaxTicks == 520

\* the timer registers, and the bytes written to each
TimerValuesAt(address) ==
    CASE address = REG_DIV_ADDR -> {90}
      [] address = REG_TIMA_ADDR -> {253, 255}
      [] address = REG_TMA_ADDR -> {255}
      [] address = REG_TAC_ADDR -> {1, 5}

\* the calls of Timer::step so far, and those since DIV last counted
StepsBy(ev) == IF ev.op = "none" THEN 0 ELSE ev.n
SinceBy(ev) == IF ev.op = "none" THEN 0 ELSE ev.since

\* a call of Bus::write on a timer register, before the first Timer::step
TimerWriteCall ==
    /\ panic = "none"
    /\ StepsBy(bus_ev) = 0
    /\ \E address \in REG_DIV_ADDR .. REG_TAC_ADDR : \E value \in TimerValuesAt(address) :
         /\ SetBus(BusWrite(Bus, address, value))
         /\ bus_ev' = [op |-> "write", address |-> address, value |-> value,
                       n |-> 0, since |-> 0]
    /\ UNCHANGED << cpu, sys, cpu_ev, serial_output, loaded >>

\* the system after a call of Timer::step with result r; the history keeps
\* the registers the call found, whether it counted DIV or TIMA, the
\* interrupt it requested, and the calls since DIV last counted
TimerStepTo(r) ==
    /\ timer' = r.timer
    /\ it' = ItRequest(it, r.irq)
    /\ bus_ev' = [op |-> "step", n |-> StepsBy(bus_ev) + 1,
                  div_in |-> timer.reg_div, tima_in |-> timer.reg_tima,
                  tma_in |-> timer.reg_tma,
                  div_inc |-> (r.timer.div_cycles = 0),
                  tima_inc |-> r.inc, irq |-> r.irq,
                  gap |-> SinceBy(bus_ev) + 1,
                  since |-> IF r.timer.div_cycles = 0 THEN 0 ELSE SinceBy(bus_ev) + 1]

\* a call of Timer::step
TimerStepCall ==
    /\ panic = "none"
    /\ StepsBy(bus_ev) < MaxTicks
    /\ TimerStepTo(TimerStep(timer))
    /\ UNCHANGED << cpu, serial, joypad, ppu, apu, rom, wram, hram, sys, cpu_ev,
                    serial_output, loaded, panic >>

NextTimer == TimerWriteCall \/ TimerStepCall

InitTimer == Power(ImageNop, Mbc0, InterruptHandlerNew)

SpecTimer == InitTimer /\ [][NextTimer]_vars

\* C19, as stated: a Timer::step that counts DIV comes 256 calls after the
\* one before it (or after construction) and adds one to DIV mod 256; a
\* write to 0xFF04 leaves DIV at 0 whatever the byte.
C19_DivPeriod ==
    /\ (bus_ev.op = "step" /\ bus_ev.div_inc) =>
          /\ bus_ev.gap = 256
          /\ timer.reg_div = (bus_ev.div_in + 1) % 256
    /\ (bus_ev.op = "step" /\ ~bus_ev.div_inc) =>
          /\ bus_ev.gap < 256
          /\ timer.reg_div = bus_ev.div_in
    /\ (bus_ev.op = "write" /\ bus_ev.address = REG_DIV_ADDR) => timer.reg_div = 0

\* C20, as stated: a Timer::step that counts TIMA from 0xFF reloads it from
\* TMA and requests the Timer interrupt; one that counts it from any other
\* value adds one and requests nothing.
C20_TimaOverflow ==
    (bus_ev.op = "step" /\ bus_ev.tima_inc) =>
        IF bus_ev.tima_in = 255
        THEN timer.reg_tima = bus_ev.tma_in /\ bus_ev.irq = Flag_TimerOverflow
        ELSE timer.reg_tima = bus_ev.tima_in + 1 /\ bus_ev.irq = 0

----------------------------------------------------------------------------
(* Ppu::step, called tick after tick (ppu/ppu.rs)                          *)

\* the calls of Ppu::step followed: the rest of the blanking the Ppu starts
\* in, one whole frame, and the first line of the next
MaxPpuTicks == 74800

\* the history before the first call: no tick, no line and no frame ended,
\* no pixel set
PpuEv0 ==
    [op |-> "none", n |-> 0, mode_in |-> LCD_STATUS_MODE_VBLANK,
     ly_in |-> DEFAULT_REG_DMG_LY, emitted |-> "none", x |-> 0, y |-> 0, irq |-> 0,
     line_len |-> 0, since_ly |-> 0, frame_len |-> -1, since_wrap |-> -1,
     px |-> 0, px_order |-> TRUE, xfer_len |-> 0, lcd_on |-> TRUE]

PpuHist(ev) == IF ev.op = "none" THEN PpuEv0 ELSE ev

\* the history after a call of Ppu::step with result r, from the history h:
\* the mode and line the call found, what it sent to the screen, the
\* length of the line and of the frame it ended, and for the line under
\* way the ticks since it began (since_ly), those spent in mode 3
\* (xfer_len), the pixels set (px), whether each was set at (px, LY)
\* (px_order), and whether LCDC bit 7 was set at every tick (lcd_on)
PpuEvAfter(r, h) ==
    [op |-> "tick", n |-> h.n + 1, mode_in |-> PpuMode(ppu), ly_in |-> ppu.reg_ly,
     emitted |-> r.emitted, x |-> r.x, y |-> r.y, irq |-> r.irq,
     line_len |-> IF r.ppu.reg_ly # ppu.reg_ly THEN h.since_ly + 1 ELSE h.line_len,
     since_ly |-> IF r.ppu.reg_ly # ppu.reg_ly THEN 0 ELSE h.since_ly + 1,
     frame_len |-> IF r.ppu.reg_ly < ppu.reg_ly /\ h.since_wrap >= 0
                   THEN h.since_wrap + 1 ELSE h.frame_len,
     since_wrap |-> IF r.ppu.reg_ly < ppu.reg_ly THEN 0
                    ELSE IF h.since_wrap < 0 THEN -1 ELSE h.since_wrap + 1,
     px |-> IF r.ppu.reg_ly # ppu.reg_ly THEN 0
            ELSE IF r.emitted = "pixel" THEN h.px + 1 ELSE h.px,
     px_order |-> \/ r.ppu.reg_ly # ppu.reg_ly
                  \/ /\ h.px_order
                     /\ r.emitted = "pixel" => (r.x = h.px /\ r.y = ppu.reg_ly),
     xfer_len |-> IF r.ppu.reg_ly # ppu.reg_ly THEN 0
                  ELSE IF PpuMode(ppu) = LCD_STATUS_MODE_XFER THEN h.xfer_len + 1
                  ELSE h.xfer_len,
     lcd_on |-> (h.since_ly = 0 \/ h.lcd_on) /\ is_lcd_enabled(ppu)]

\* a call of Ppu::step with result r
PpuTickTo(r) ==
    /\ ppu' = r.ppu
    /\ it' = ItRequest(it, r.irq)
    /\ bus_ev' = PpuEvAfter(r, PpuHist(bus_ev))
    /\ UNCHANGED << cpu, serial, timer, joypad, apu, rom, wram, hram, sys, cpu_ev,
                    serial_output, loaded, panic >>

\* a call of Bus::write on the Ppu; the history keeps its counts
PpuWriteTo(address, value) ==
    /\ SetBus(BusWrite(Bus, address, value))
    /\ bus_ev' = [PpuHist(bus_ev) EXCEPT !.op = "write"]
    /\ UNCHANGED << cpu, sys, cpu_ev, serial_output, loaded >>

\* the scroll, the sprites and the LCD set up before the first tick: SCX 5
\* or 7, a sprite whose Y puts it on lines 0 to 7, and the LCD switched off
PpuSetups ==
    {<< REG_SCX_ADDR, 5 >>, << REG_SCX_ADDR, 7 >>, << OAM_REGION_START, 16 >>,
     << REG_LCDC_ADDR, DEFAULT_REG_DMG_LCDC - FLAG_LCDC_LCD_ENABLE >>}

PpuSetupCall ==
    /\ panic = "none"
    /\ PpuHist(bus_ev).n = 0
    /\ \E w \in PpuSetups :
         /\ BusRead(Bus, w[1], 0) # w[2]
         /\ PpuWriteTo(w[1], w[2])

PpuTickCall ==
    /\ panic = "none"
    /\ PpuHist(bus_ev).n < MaxPpuTicks
    /\ PpuTickTo(PpuStep(ppu))

NextPpu == PpuSetupCall \/ PpuTickCall

InitPpu == Power(ImageNop, Mbc0, InterruptHandlerNew)

SpecPpu == InitPpu /\ [][NextPpu]_vars

\* Ppu::step has just returned: bus_ev describes that call
Ticked == bus_ev.op = "tick"

\* the mode changes of a tick that the state machine of a scanline allows
ModeSteps ==
    {<< LCD_STATUS_MODE_OAM, LCD_STATUS_MODE_XFER >>,
     << LCD_STATUS_MODE_XFER, LCD_STATUS_MODE_HBLANK >>,
     << LCD_STATUS_MODE_HBLANK, LCD_STATUS_MODE_OAM >>,
     << LCD_STATUS_MODE_HBLANK, LCD_STATUS_MODE_VBLANK >>,
     << LCD_STATUS_MODE_VBLANK, LCD_STATUS_MODE_OAM >>}

\* C11: after every PPU tick LY is in 0..153; the mode stays or changes
\* along OAM -> Transfer -> HBlank -> OAM or VBlank, and VBlank -> OAM;
\* VBlank is entered exactly at the tick that makes LY 144 and left exactly
\* at the tick that takes LY from 153 to 0; and where the exit test of the
\* source runs, it agrees with LY >= 154 on every 8-bit LY.
C11_ModesAndLy ==
    Ticked =>
        /\ InRange(ppu.reg_ly, 0, 153)
        /\ ppu.reg_ly \in {bus_ev.ly_in, bus_ev.ly_in + 1, 0}
        /\ \/ PpuMode(ppu) = bus_ev.mode_in
           \/ << bus_ev.mode_in, PpuMode(ppu) >> \in ModeSteps
        /\ (bus_ev.mode_in # LCD_STATUS_MODE_VBLANK /\ PpuMode(ppu) = LCD_STATUS_MODE_VBLANK)
              <=> (bus_ev.ly_in # 144 /\ ppu.reg_ly = 144)
        /\ (bus_ev.mode_in = LCD_STATUS_MODE_VBLANK /\ PpuMode(ppu) # LCD_STATUS_MODE_VBLANK)
              <=> (bus_ev.ly_in = 153 /\ ppu.reg_ly = 0)
        /\ (bus_ev.mode_in = LCD_STATUS_MODE_VBLANK /\ bus_ev.since_ly = 0) =>
              \A ly \in 0 .. 255 :
                 (ly * HBLANK_LIMIT_PERIOD >= VBLANK_LIMIT_PERIOD) <=> (ly >= 154)

\* C11: the tick that ends line 143 enters VBlank with LY 144, after a
\* frame that began with the wrap of LY from 153 to 0
C11_Witness ==
    /\ Ticked
    /\ bus_ev.mode_in = LCD_STATUS_MODE_HBLANK
    /\ PpuMode(ppu) = LCD_STATUS_MODE_VBLANK
    /\ ppu.reg_ly = 144
    /\ bus_ev.since_wrap = 144 * HBLANK_LIMIT_PERIOD

\* C12: the dot counter never exceeds 456; the mode is OAM scan during the
\* first 80 dots of a visible line and no longer; transfer lasts at least
\* 172 ticks and ends before dot 456; every line lasts exactly 456 ticks,
\* and a frame 154 * 456 = 70224.
C12_LineTiming ==
    Ticked =>
        /\ ppu.hdots < HBLANK_LIMIT_PERIOD
        /\ PpuMode(ppu) = LCD_STATUS_MODE_OAM <=>
              (ppu.reg_ly < FRAME_HEIGHT /\ ppu.hdots < 80)
        /\ (bus_ev.mode_in = LCD_STATUS_MODE_XFER /\ PpuMode(ppu) = LCD_STATUS_MODE_HBLANK) =>
              (bus_ev.xfer_len >= 172 /\ ppu.hdots < HBLANK_LIMIT_PERIOD)
        /\ PpuMode(ppu) = LCD_STATUS_MODE_XFER => ppu.hdots < HBLANK_LIMIT_PERIOD - 1
        /\ bus_ev.since_ly = ppu.hdots
        /\ (bus_ev.since_ly = 0 /\ bus_ev.n > HBLANK_LIMIT_PERIOD) => bus_ev.line_len = 456
        /\ bus_ev.since_ly < 456
        /\ bus_ev.frame_len \in {-1, 70224}

\* C12: a frame has ended 70224 ticks after it began, with SCX 5 and a
\* sprite on its first lines
C12_Witness ==
    /\ Ticked
    /\ bus_ev.since_wrap = 0
    /\ bus_ev.frame_len = 70224
    /\ ppu.reg_scx = 5
    /\ MemGet(ppu.oam, 0) = 16

(***************************************************************************)
(* The PPU ticking while the program switches the LCD off and on: writes   *)
(* of LCDC between two lines, with bit 7 cleared or set.                   *)
(***************************************************************************)
MaxLcdTicks == 5100

\* LCDC as the program writes it: the value after power-up, and the same
\* with the LCD switched off
LcdcValues == {DEFAULT_REG_DMG_LCDC, DEFAULT_REG_DMG_LCDC - FLAG_LCDC_LCD_ENABLE}

LcdWriteCall ==
    /\ panic = "none"
    /\ ppu.hdots = 0
    /\ \E value \in LcdcValues :
         /\ value # ppu.reg_lcdc
         /\ PpuWriteTo(REG_LCDC_ADDR, value)

LcdTickCall ==
    /\ panic = "none"
    /\ PpuHist(bus_ev).n < MaxLcdTicks
    /\ PpuTickTo(PpuStep(ppu))

NextLcd == PpuSetupCall \/ LcdWriteCall \/ LcdTickCall

InitLcd == Power(ImageNop, Mbc0, InterruptHandlerNew)

SpecLcd == InitLcd /\ [][NextLcd]_vars

\* the tick at which the HBlank of a visible line begins
HblankBegins ==
    /\ Ticked
    /\ bus_ev.mode_in = LCD_STATUS_MODE_XFER
    /\ PpuMode(ppu) = LCD_STATUS_MODE_HBLANK

\* every pixel set is inside the frame
PixelsInFrame ==
    /\ (Ticked /\ bus_ev.emitted = "pixel") =>
          (InRange(bus_ev.x, 0, 159) /\ InRange(bus_ev.y, 0, 143))
    /\ (Ticked /\ bus_ev.emitted = "blank") =>
          (FRAME_WIDTH - 1 = 159 /\ FRAME_HEIGHT - 1 = 143)

\* C13 as stated: on every visible line during which LCDC bit 7 is set,
\* 160 pixels have been set when HBlank begins, at x = 0..159 in order and
\* y = LY; and every pixel set is inside the frame.
C13_AsStated ==
    /\ (HblankBegins /\ bus_ev.lcd_on) => (bus_ev.px = 160 /\ bus_ev.px_order)
    /\ PixelsInFrame

\* C13: on every visible line during which the pipeline is not disabled,
\* 160 pixels have been set when HBlank begins, at x = 0..159 in order and
\* y = LY, and none on a line during which it is disabled, whatever LCDC
\* says; and every pixel set is inside the frame.
C13_PipelineOn ==
    /\ (HblankBegins /\ ~ppu.pipeline.disabled) => (bus_ev.px = 160 /\ bus_ev.px_order)
    /\ (HblankBegins /\ ppu.pipeline.disabled) => bus_ev.px = 0
    /\ Ticked => bus_ev.px_order
    /\ PixelsInFrame

\* C13: HBlank begins on line 1, drawn with SCX 5 after the LCD was
\* switched off and on again during VBlank
C13_Witness ==
    /\ HblankBegins
    /\ ~ppu.pipeline.disabled
    /\ bus_ev.lcd_on
    /\ ppu.reg_ly = 1
    /\ ppu.reg_scx = 5
    /\ bus_ev.px = 160

(***************************************************************************)
(* System::update_frame, called again and again: calls of System::step     *)
(* until the cycles of a frame have run, then Screen.update.  Ppu::step    *)
(* and Timer::step run in the loop over the ticks as the code runs them.   *)
(***************************************************************************)
DEFAULT_FRAME_RATE == 60

\* System::new: cycles_per_frame
cycles_per_frame == CLOCK_SPEED \div DEFAULT_FRAME_RATE

\* calls of update_frame
MaxFrames == 3

\* the history before the first call: cycles is the local of update_frame,
\* counted at the loop over the ticks of each step; px the pixels set since
\* the last Screen.update, updates the calls of Screen.update, px_frame the
\* pixels set between the last two of them
FrameEv0 == [op |-> "frame", cycles |-> 0, px |-> 0, updates |-> 0, px_frame |-> 0]

FrameHist(ev) == IF ev.op = "none" THEN FrameEv0 ELSE ev

\* the calls of Screen.set_pixel of one Ppu::step
PixelsSet(emitted) ==
    CASE emitted = "pixel" -> 1
      [] emitted = "blank" -> FRAME_WIDTH * FRAME_HEIGHT
      [] OTHER -> 0

\* one pass of the loop of System::step, with the results of Ppu::step and
\* of Timer::step
TickOnce(l, pr, tr) ==
    [ppu |-> pr.ppu, timer |-> tr.timer,
     it |-> ItRequest(ItRequest(l.it, pr.irq), tr.irq),
     px |-> l.px + PixelsSet(pr.emitted),
     n_ppu |-> l.n_ppu + 1, n_timer |-> l.n_timer + 1]

\* for _ in 0..ticks { ppu.step; timer.step }: each pass is complete
\* (its pixels counted) before the next begins
RECURSIVE TickRun(_, _, _)
TickNext(l, i, ticks) == IF l.px >= 0 THEN TickRun(l, i, ticks) ELSE l
TickRun(l, i, ticks) ==
    IF LoopAgain(i, ticks)
    THEN TickNext(TickOnce(l, PpuStep(l.ppu), TimerStep(l.timer)), i + 1, ticks)
    ELSE l

FrameTicksTo(l) ==
    /\ ppu' = l.ppu
    /\ timer' = l.timer
    /\ it' = l.it
    /\ sys' = [sys EXCEPT !.at = "serial", !.n_ppu = l.n_ppu, !.n_timer = l.n_timer]
    /\ bus_ev' = [FrameHist(bus_ev) EXCEPT !.op = "frame", !.cycles = @ + sys.ticks,
                                           !.px = l.px]

\* System::step inside update_frame, the loop over the ticks
FrameTicks ==
    /\ panic = "none"
    /\ sys.at = "tick"
    /\ FrameTicksTo(TickRun([ppu |-> ppu, timer |-> timer, it |-> it,
                             px |-> FrameHist(bus_ev).px, n_ppu |-> 0, n_timer |-> 0],
                            0, sys.ticks))
    /\ UNCHANGED << cpu, serial, joypad, apu, rom, wram, hram,
                    cpu_ev, serial_output, loaded, panic >>

\* update_frame, while cycles < self.cycles_per_frame: the next step
FrameCpuStep ==
    /\ FrameHist(bus_ev).updates < MaxFrames
    /\ FrameHist(bus_ev).cycles < cycles_per_frame
    /\ CpuStep

\* update_frame, past the loop: Screen.update, and the return; the next call
\* begins with cycles = 0
FrameUpdate ==
    /\ panic = "none"
    /\ sys.at = "cpu"
    /\ FrameHist(bus_ev).cycles >= cycles_per_frame
    /\ bus_ev' = [FrameHist(bus_ev) EXCEPT !.op = "update", !.cycles = 0, !.px = 0,
                                           !.updates = @ + 1,
                                           !.px_frame = FrameHist(bus_ev).px]
    /\ UNCHANGED << cpu, it, serial, timer, joypad, ppu, apu, rom, wram, hram, sys,
                    cpu_ev, serial_output, loaded, panic >>

NextFrame == FrameCpuStep \/ FrameTicks \/ SerialStep \/ DmaTick \/ FrameUpdate

InitFrame == Power(ImageNop, Mbc0, InterruptHandlerNew)

SpecFrame == InitFrame /\ [][NextFrame]_vars

\* C14: between two consecutive calls of Screen.update made by
\* update_frame at the default frame rate of 60, set_pixel is called
\* exactly 160 * 144 = 23040 times.
C14_PixelsPerFrame ==
    (bus_ev.op = "update" /\ bus_ev.updates >= 2) => bus_ev.px_frame = 160 * 144

----------------------------------------------------------------------------
(* The interrupt flags under all their users                               *)

\* C22, as stated: a read of IF returns a value whose bits 5 to 7 are set,
\* whatever was written to IF before.
C22_IfReadTopBits == BitAnd(BusRead(Bus, REG_IF_ADDR, 0), 224) = 224

(***************************************************************************)
(* System::step on the interrupt-handling cartridge with Ppu::step and     *)
(* Timer::step run in the loop over the ticks, the timer and the LYC       *)
(* interrupt set up before the first step, and buttons pressed and         *)
(* released between two steps.                                             *)
(***************************************************************************)
MaxIfCycles == 480

\* the timer started with TIMA three counts from its reload, and the LYC
\* interrupt selected for line 146, the line after the one the PPU is
\* constructed on
IfSetups ==
    << << REG_TAC_ADDR, 5 >>, << REG_TIMA_ADDR, 253 >>, << REG_LYC_ADDR, 146 >>,
       << REG_STAT_ADDR, FLAG_STAT_IT_LYC >> >>

\* the write w has been made: making it again changes nothing
SetUp(w) == BusWrite(Bus, w[1], w[2]) = Bus

\* Bus::write, before the first step, in the order of IfSetups
IfSetupCall ==
    /\ panic = "none"
    /\ sys.n_cpu = 0
    /\ \E i \in 1 .. Len(IfSetups) :
         /\ \A j \in 1 .. i - 1 : SetUp(IfSetups[j])
         /\ ~SetUp(IfSetups[i])
         /\ SetBus(BusWrite(Bus, IfSetups[i][1], IfSetups[i][2]))
    /\ UNCHANGED << cpu, sys, cpu_ev, serial_output, loaded, bus_ev >>

Buttons == {Button_A}

JoypadTo(r) ==
    /\ joypad' = r.joypad
    /\ it' = ItRequest(it, r.irq)

\* System::set_button, between two steps
JoypadCall ==
    /\ panic = "none"
    /\ sys.at = "cpu"
    /\ \E button \in Buttons : \E is_pressed \in BOOLEAN :
         /\ set_button(joypad, button, is_pressed).joypad # joypad
         /\ JoypadTo(set_button(joypad, button, is_pressed))
    /\ UNCHANGED << cpu, serial, timer, ppu, apu, rom, wram, hram, sys, cpu_ev,
                    serial_output, loaded, bus_ev, panic >>

IfCpuStep ==
    /\ FrameHist(bus_ev).cycles < MaxIfCycles
    /\ CpuStep

NextIf == IfSetupCall \/ JoypadCall \/ IfCpuStep \/ FrameTicks \/ SerialStep \/ DmaTick

\* a cartridge whose code writes register A (0x01) to IF and to IE
ImageIf ==
    [len |-> ROM_REGION_SIZE, ctype |-> 0, ops |-> {OP_NOP, OP_LDH_N_A},
     imm8 |-> {}, imm16 |-> {}, ldh |-> {LoByte(REG_IF_ADDR), LoByte(REG_IE_ADDR)},
     jp |-> {DEFAULT_PC}, data |-> {0}]

InitIf == Power(ImageIf, Mbc0, InterruptHandlerNew)

SpecIf == InitIf /\ [][NextIf]_vars

\* the call of Cpu::step among the steps of the system
CpuStepTaken == sys.at = "cpu" /\ sys'.at = "tick"

\* C21: a step of the PPU, the timer, the serial port, the joypad or the
\* DMA engine leaves every bit of IF that was set, set; the interrupt check
\* at the end of Cpu::step leaves IF as it found it when it services
\* nothing, and with only the serviced bit cleared when it services one.
C21_IfSetAndCleared ==
    [][ /\ ~CpuStepTaken => BitAnd(it.reg_if, BitNot(it'.reg_if)) = 0
        /\ CpuStepTaken =>
              it'.reg_if = BitAnd(cpu_ev'.if_chk, BitNot(cpu_ev'.serviced)) ]_vars

\* C21: an interrupt has just been serviced while the timer, the joypad and
\* the PPU have their requests standing in IF
C21_Witness ==
    /\ Stepped
    /\ cpu_ev.serviced = Flag_Vblank
    /\ BitAnd(cpu_ev.if_chk, Flag_Vblank) # 0
    /\ BitAnd(it.reg_if, 31) = Flag_Lcdc + Flag_TimerOverflow + Flag_Joypad

\* C23, as stated: the loop of a System::step whose CPU step returned N
\* makes N calls of Apu::step, so that the tick counter of the APU has
\* advanced by N when the serial port is reached.
C23_ApuInLockstep ==
    [][ sys.at = "tick" /\ sys'.at = "serial" =>
            apu'.ticks = apu.ticks + sys.ticks ]_vars

----------------------------------------------------------------------------
(* The APU under writes to its registers and calls of Apu::step            *)

MaxApuWrites == 3
MaxApuSteps == 4
MaxApuRuns == 8

\* the registers written
ApuAddresses ==
    {REG_NR10_ADDR, REG_NR11_ADDR, REG_NR12_ADDR, REG_NR14_ADDR,
     REG_NR22_ADDR, REG_NR24_ADDR, REG_NR30_ADDR, REG_NR34_ADDR,
     REG_NR42_ADDR, REG_NR44_ADDR, REG_NR52_ADDR}

\* the bytes written: a sweep, the shortest length with the widest duty, a
\* DAC off and on, a trigger with the length counter enabled, the power
\* off and on
ApuValuesAt(address) ==
    CASE address = REG_NR10_ADDR -> {17}
      [] address = REG_NR11_ADDR -> {255}
      [] address \in {REG_NR12_ADDR, REG_NR22_ADDR, REG_NR42_ADDR} -> {0, 9}
      [] address = REG_NR30_ADDR -> {0, 128}
      [] address \in {REG_NR14_ADDR, REG_NR24_ADDR, REG_NR34_ADDR, REG_NR44_ADDR} -> {192}
      [] address = REG_NR52_ADDR -> {0, 128}

\* the four length counters
Lengths(a) ==
    << a.channel_1.length_counter, a.channel_2.length_counter,
       a.channel_3.length_counter, a.channel_4.length_counter >>

\* The calls made on the APU so far: the last one (op, address, value), the
\* APU as that call found it (before), the number of writes, the length
\* counters and the tick counter found by the last write that turned the
\* APU off (off_len, off_ticks) and whether no length register has been
\* written since (len_kept).
ApuEv0 ==
    [op |-> "none", address |-> 0, value |-> 0, before |-> ApuNew, writes |-> 0,
     off_len |-> Lengths(ApuNew), off_ticks |-> 0, len_kept |-> FALSE]

ApuHist(ev) == IF ev.op = "none" THEN ApuEv0 ELSE ev

ApuWriteTo(address, value) ==
    /\ apu' = ApuWrite(apu, address, value)
    /\ bus_ev' =
         [op |-> "write", address |-> address, value |-> value, before |-> apu,
          writes |-> ApuHist(bus_ev).writes + 1,
          off_len |-> IF address = REG_NR52_ADDR /\ ~is_set(value, 128) /\ ApuIsEnabled(apu)
                      THEN Lengths(apu) ELSE ApuHist(bus_ev).off_len,
          off_ticks |-> IF address = REG_NR52_ADDR /\ ~is_set(value, 128) /\ ApuIsEnabled(apu)
                        THEN apu.ticks ELSE ApuHist(bus_ev).off_ticks,
          len_kept |-> IF address = REG_NR52_ADDR /\ ~is_set(value, 128) /\ ApuIsEnabled(apu)
                       THEN TRUE
                       ELSE IF address \in {REG_NR11_ADDR, REG_NR21_ADDR,
                                            REG_NR31_ADDR, REG_NR41_ADDR}
                       THEN FALSE ELSE ApuHist(bus_ev).len_kept]

\* Bus::write on the sound region
ApuWriteCall ==
    /\ ApuHist(bus_ev).writes < MaxApuWrites
    /\ \E address \in ApuAddresses : \E value \in ApuValuesAt(address) :
         ApuWriteTo(address, value)
    /\ UNCHANGED << cpu, it, serial, timer, joypad, ppu, rom, wram, hram, sys,
                    cpu_ev, serial_output, loaded, panic >>

ApuStepsTo(op, a) ==
    /\ apu' = a
    /\ bus_ev' = [ApuHist(bus_ev) EXCEPT !.op = op, !.before = apu]

\* Apu::step, one of the first calls
ApuStepCall ==
    /\ apu.ticks < MaxApuSteps
    /\ ApuStepsTo("step", ApuStep(apu))
    /\ UNCHANGED << cpu, it, serial, timer, joypad, ppu, rom, wram, hram, sys,
                    cpu_ev, serial_output, loaded, panic >>

\* Apu::step, called up to the next step of the frame sequencer
ApuRunCall ==
    /\ apu.ticks < MaxApuRuns * FRAME_SEQUENCER_PERIOD
    /\ ApuStepsTo("run", ApuRun(apu))
    /\ UNCHANGED << cpu, it, serial, timer, joypad, ppu, rom, wram, hram, sys,
                    cpu_ev, serial_output, loaded, panic >>

NextApu == ApuWriteCall \/ ApuStepCall \/ ApuRunCall

InitApu == Power(ImageNop, Mbc0, InterruptHandlerNew)

SpecApu == InitApu /\ [][NextApu]_vars

\* an APU write has just been made
ApuWritten == bus_ev.op = "write"

\* C24: a channel whose DAC bits are all zero is disabled.
C24_DacOffDisabled ==
    /\ ~EnvelopeDac(apu.channel_1.reg_nr12) => ~apu.channel_1.enabled
    /\ ~EnvelopeDac(apu.channel_2.reg_nr22) => ~apu.channel_2.enabled
    /\ ~Ch3Dac(apu.channel_3) => ~apu.channel_3.enabled
    /\ ~EnvelopeDac(apu.channel_4.reg_nr42) => ~apu.channel_4.enabled

\* C24: channel 1, enabled by a trigger, has just been disabled by a write
\* of NR12 that clears its DAC bits
C24_Witness ==
    /\ ApuWritten
    /\ bus_ev.address = REG_NR12_ADDR
    /\ bus_ev.value = 0
    /\ bus_ev.before.channel_1.enabled
    /\ ~apu.channel_1.enabled

\* C25, as stated: while the APU is off, a write to one of NR10 to NR51
\* changes nothing but, at NR11, NR21, NR31 and NR41, the length counters.
C25_OffWritesIgnored ==
    [][ ( /\ bus_ev'.op = "write"
          /\ ~ApuIsEnabled(apu)
          /\ InRange(bus_ev'.address, REG_NR10_ADDR, REG_NR51_ADDR) )
        => IF bus_ev'.address \in {REG_NR11_ADDR, REG_NR21_ADDR,
                                   REG_NR31_ADDR, REG_NR41_ADDR}
           THEN RestoreLength(apu', apu) = apu
           ELSE apu' = apu ]_vars

\* the sound registers NR10 to NR51
SoundRegs(a) ==
    {a.channel_1.reg_nr10, a.channel_1.reg_nr11, a.channel_1.reg_nr12,
     a.channel_1.reg_nr13, a.channel_1.reg_nr14,
     a.channel_2.reg_nr21, a.channel_2.reg_nr22, a.channel_2.reg_nr23,
     a.channel_2.reg_nr24,
     a.channel_3.reg_nr30, a.channel_3.reg_nr31, a.channel_3.reg_nr32,
     a.channel_3.reg_nr33, a.channel_3.reg_nr34,
     a.channel_4.reg_nr41, a.channel_4.reg_nr42, a.channel_4.reg_nr43,
     a.channel_4.reg_nr44, a.reg_nr50, a.reg_nr51}

ChannelsEnabled(a) ==
    {a.channel_1.enabled, a.channel_2.enabled, a.channel_3.enabled,
     a.channel_4.enabled}

\* the write just made has turned the APU off / on
PoweredOff ==
    /\ ApuWritten /\ bus_ev.address = REG_NR52_ADDR
    /\ ~is_set(bus_ev.value, 128) /\ ApuIsEnabled(bus_ev.before)

PoweredOn ==
    /\ ApuWritten /\ bus_ev.address = REG_NR52_ADDR
    /\ is_set(bus_ev.value, 128) /\ ~ApuIsEnabled(bus_ev.before)

\* C26: the write that turns the APU off zeroes NR10 to NR51, disables the
\* four channels and leaves the four length counters as it found them; the
\* write that turns it on again finds and leaves them as they were before
\* the power-off, when no length register has been written in between.
C26_PowerCycleKeepsLengths ==
    /\ PoweredOff =>
          /\ SoundRegs(apu) = {0}
          /\ ChannelsEnabled(apu) = {FALSE}
          /\ Lengths(apu) = Lengths(bus_ev.before)
    /\ PoweredOn /\ bus_ev.len_kept => Lengths(apu) = bus_ev.off_len

\* C26: the APU is on again, the frame sequencer having run while it was
\* off, with in channel 1 the length counter that the length clock had
\* counted down before the power-off
C26_Witness ==
    /\ PoweredOn
    /\ bus_ev.len_kept
    /\ apu.ticks > bus_ev.off_ticks
    /\ bus_ev.off_len[1] < 64
    /\ Lengths(apu) = bus_ev.off_len

\* the write just made is a trigger of the channel of address
Triggered(address) ==
    /\ ApuWritten /\ bus_ev.address = address
    /\ is_set(bus_ev.value, 128) /\ ApuIsEnabled(bus_ev.before)

\* C27, as stated: a trigger reloads the frequency timer with the period,
\* resets the envelope, sets the duty or wave position to 0 (the LFSR to
\* 0x7FFF on channel 4), reloads a length counter of zero to its capacity
\* and enables the channel exactly when its DAC bits are set.
C27_TriggerEffects ==
    /\ Triggered(REG_NR14_ADDR) =>
          /\ apu.channel_1.frequency_timer
                = WavePeriod(apu.channel_1.reg_nr14, apu.channel_1.reg_nr13)
          /\ apu.channel_1.current_volume = apu.channel_1.reg_nr12 \div 16
          /\ apu.channel_1.envelope_timer = BitAnd(apu.channel_1.reg_nr12, 7)
          /\ apu.channel_1.wave_cursor = 0
          /\ bus_ev.before.channel_1.length_counter = 0
                => apu.channel_1.length_counter = 64
          /\ apu.channel_1.enabled = EnvelopeDac(apu.channel_1.reg_nr12)
    /\ Triggered(REG_NR24_ADDR) =>
          /\ apu.channel_2.frequency_timer
                = WavePeriod(apu.channel_2.reg_nr24, apu.channel_2.reg_nr23)
          /\ apu.channel_2.current_volume = apu.channel_2.reg_nr22 \div 16
          /\ apu.channel_2.envelope_timer = BitAnd(apu.channel_2.reg_nr22, 7)
          /\ apu.channel_2.wave_cursor = 0
          /\ bus_ev.before.channel_2.length_counter = 0
                => apu.channel_2.length_counter = 64
          /\ apu.channel_2.enabled = EnvelopeDac(apu.channel_2.reg_nr22)
    /\ Triggered(REG_NR34_ADDR) =>
          /\ apu.channel_3.frequency_timer = Ch3Period(apu.channel_3)
          /\ apu.channel_3.wave_cursor = 0
          /\ bus_ev.before.channel_3.length_counter = 0
                => apu.channel_3.length_counter = 256
          /\ apu.channel_3.enabled = Ch3Dac(apu.channel_3)
    /\ Triggered(REG_NR44_ADDR) =>
          /\ apu.channel_4.frequency_timer = Ch4Frequency(apu.channel_4)
          /\ apu.channel_4.current_volume = apu.channel_4.reg_nr42 \div 16
          /\ apu.channel_4.envelope_timer = BitAnd(apu.channel_4.reg_nr42, 7)
          /\ apu.channel_4.lfsr = 32767
          /\ bus_ev.before.channel_4.length_counter = 0
                => apu.channel_4.length_counter = 64
          /\ apu.channel_4.enabled = EnvelopeDac(apu.channel_4.reg_nr42)


----------------------------------------------------------------------------
(* Ppu::scan_sprites and the sprite list of the line (ppu/ppu.rs,          *)
(* ppu/pipeline.rs, ppu/sprite.rs).  The list Pipeline.obj_list is         *)
(* followed here: the first obj_count entries, as a sequence.              *)

\* Sprite::new from the four bytes of the OAM entry at offset i
SpriteAt(p, i) ==
    [x |-> MemGet(p.oam, i + 1), y |-> MemGet(p.oam, i),
     tile_index |-> MemGet(p.oam, i + 2), attrs |-> MemGet(p.oam, i + 3)]

RECURSIVE PushSprites(_, _, _)
\* the loop of scan_sprites from offset i: push_sprite for each entry on
\* the line, and break when obj_count reaches 10
PushSprites(p, i, list) ==
    IF i >= OAM_REGION_SIZE THEN list
    ELSE IF ~SpriteOnLine(p, i) THEN PushSprites(p, i + 4, list)
    ELSE IF Len(list) + 1 >= 10 THEN Append(list, SpriteAt(p, i))
    ELSE PushSprites(p, i + 4, Append(list, SpriteAt(p, i)))

\* the list without its i-th element
Without(list, i) == SubSeq(list, 1, i - 1) \o SubSeq(list, i + 1, Len(list))

RECURSIVE Arrangements(_)
\* every order of the elements of a list
Arrangements(list) ==
    IF list = << >> THEN {<< >>}
    ELSE UNION {{<< list[i] >> \o t : t \in Arrangements(Without(list, i))} :
                  i \in 1 .. Len(list)}

\* the smallest x of a list that is not empty (Ord for Sprite compares x)
MinX(list) ==
    CHOOSE m \in {list[i].x : i \in 1 .. Len(list)} :
       \A i \in 1 .. Len(list) : m <= list[i].x

WithX(list, m) == SelectSeq(list, LAMBDA s : s.x = m)
WithoutX(list, m) == SelectSeq(list, LAMBDA s : s.x # m)

RECURSIVE sort_sprites_stable(_)
\* a sort that keeps the elements that compare equal in the order they had
sort_sprites_stable(list) ==
    IF list = << >> THEN << >>
    ELSE WithX(list, MinX(list)) \o sort_sprites_stable(WithoutX(list, MinX(list)))

RECURSIVE sort_sprites(_)
\* Pipeline::sort_sprites: obj_list[..obj_count].sort_unstable().  The list
\* comes out in the order of x; sprites of the same x compare equal
\* (PartialEq and Ord for Sprite look at x alone), and a sort that is not
\* stable may leave them in any order: every such list is an outcome.
sort_sprites(list) ==
    IF list = << >> THEN {<< >>}
    ELSE {g \o r : g \in Arrangements(WithX(list, MinX(list))),
                   r \in sort_sprites(WithoutX(list, MinX(list)))}

\* the ticks followed: the blanking the Ppu starts in and lines 0 to 16
MaxOamTicks == 11900

\* a sprite table: the entries written to OAM from its start, as << y, x,
\* tile >>.  Y 16 puts an 8-line sprite on lines 0 to 7 and a 16-line one
\* on lines 0 to 15, Y 24 on lines 8 to 15 and 8 to 23.
Descending(n) == [i \in 1 .. n |-> << 16, 8 * (n + 1 - i), i >>]

OamTables ==
    << << << 16, 40, 1 >>, << 16, 8, 2 >>, << 16, 8, 3 >>, << 24, 8, 4 >> >>,
       << << 16, 8, 1 >>, << 24, 16, 2 >>, << 16, 8, 3 >>, << 16, 8, 4 >> >>,
       Descending(12),
       << << 24, 90, 1 >> >> \o Descending(9) \o << << 16, 1, 11 >>, << 16, 2, 12 >> >>,
       Descending(3) >>

\* the writes that load table t, in order; tables 2 and 5 first select the
\* sprites of 16 lines in LCDC
TableWrites(t) ==
    (IF t \in {2, 5}
     THEN << << REG_LCDC_ADDR, DEFAULT_REG_DMG_LCDC + FLAG_LCDC_OBJ_SIZE >> >>
     ELSE << >>)
    \o [j \in 1 .. 3 * Len(OamTables[t]) |->
          << OAM_REGION_START + 4 * ((j - 1) \div 3) + ((j - 1) % 3),
             OamTables[t][((j - 1) \div 3) + 1][((j - 1) % 3) + 1] >>]

\* the history before the first call: no table chosen, no write, no tick,
\* an empty sprite list
OamEv0 == [op |-> "none", table |-> 0, w |-> 0, n |-> 0, obj_list |-> << >>]

OamHist(ev) == IF ev.op = "none" THEN OamEv0 ELSE ev

\* Bus::write of the next byte of a table, before the first tick
OamWriteCall ==
    /\ panic = "none"
    /\ OamHist(bus_ev).n = 0
    /\ \E t \in 1 .. Len(OamTables) :
         /\ OamHist(bus_ev).table \in {0, t}
         /\ OamHist(bus_ev).w < Len(TableWrites(t))
         /\ SetBus(BusWrite(Bus, TableWrites(t)[OamHist(bus_ev).w + 1][1],
                            TableWrites(t)[OamHist(bus_ev).w + 1][2]))
         /\ bus_ev' = [OamHist(bus_ev) EXCEPT !.op = "write", !.table = t, !.w = @ + 1]
    /\ UNCHANGED << cpu, sys, cpu_ev, serial_output, loaded >>

\* the call of Ppu::step on p is the one that scans: mode 2, first dot
Scans(p) == PpuMode(p) = LCD_STATUS_MODE_OAM /\ p.hdots = 0

\* a call of Ppu::step, once the table is loaded; the call that scans
\* leaves one of the lists sort_sprites can give
OamTickCall ==
    /\ panic = "none"
    /\ OamHist(bus_ev).table # 0
    /\ OamHist(bus_ev).w = Len(TableWrites(OamHist(bus_ev).table))
    /\ OamHist(bus_ev).n < MaxOamTicks
    /\ ppu' = PpuStep(ppu).ppu
    /\ it' = ItRequest(it, PpuStep(ppu).irq)
    /\ \E list \in (IF Scans(ppu) THEN sort_sprites(PushSprites(ppu, 0, << >>))
                    ELSE {OamHist(bus_ev).obj_list}) :
         bus_ev' = [OamHist(bus_ev) EXCEPT !.op = IF Scans(ppu) THEN "scan" ELSE "tick",
                                           !.n = @ + 1, !.obj_list = list]
    /\ UNCHANGED << cpu, serial, timer, joypad, apu, rom, wram, hram, sys, cpu_ev,
                    serial_output, loaded, panic >>

NextOam == OamWriteCall \/ OamTickCall

InitOam == Power(ImageNop, Mbc0, InterruptHandlerNew)

SpecOam == InitOam /\ [][NextOam]_vars

\* Ppu::scan_sprites has just returned
Scanned == bus_ev.op = "scan"

\* the OAM entries in OAM order, and those whose Y range covers LY + 16
OamEntries(p) == [i \in 1 .. OAM_REGION_SIZE \div 4 |-> SpriteAt(p, 4 * (i - 1))]

Covering(p) ==
    SelectSeq(OamEntries(p),
              LAMBDA s : p.reg_ly + 16 >= s.y /\ p.reg_ly + 16 < s.y + obj_size(p))

FirstTen(list) == SubSeq(list, 1, IF Len(list) < 10 THEN Len(list) ELSE 10)

\* C28: after the OAM scan of a line the sprite list holds exactly the
\* first min(10, k) of the k OAM entries, in OAM order, whose Y range covers
\* LY + 16 for the sprite height, ordered by X ascending with the entries
\* of equal X kept in OAM order
C28_ScanList ==
    Scanned => bus_ev.obj_list = sort_sprites_stable(FirstTen(Covering(ppu)))


----------------------------------------------------------------------------
(* Queue<Pixel, 16> under push, pop and clear (collections/queue.rs): the  *)
(* pixel FIFO of the pipeline, called in any order                         *)

\* N of Pipeline.bgw_fifo
FifoN == 16

\* the history before the first call.  held counts the elements: one more
\* for each slot the head moves over, one less for each the tail moves over
QueueEv0 == [op |-> "none", held |-> 0, was_full |-> FALSE]

QueueHist(ev) == IF ev.op = "none" THEN QueueEv0 ELSE ev

QueueTo(op, pl, held) ==
    /\ ppu' = [ppu EXCEPT !.pipeline = pl]
    /\ bus_ev' = [op |-> op, held |-> held, was_full |-> QueueIsFull(ppu.pipeline)]

\* Queue::push
QueuePushCall ==
    /\ panic = "none"
    /\ QueueTo("push", QueuePush(ppu.pipeline),
               QueueHist(bus_ev).held + 1
               - (IF QueuePush(ppu.pipeline).fifo_tail # ppu.pipeline.fifo_tail
                  THEN 1 ELSE 0))
    /\ UNCHANGED << cpu, it, serial, timer, joypad, apu, rom, wram, hram, sys, cpu_ev,
                    serial_output, loaded, panic >>

\* Queue::pop.  On an empty queue debug_assert!(self.size() > 0) aborts a
\* build with debug assertions; a build without them moves the tail past
\* the head, and the other slots of data then count as elements.
QueuePopCall ==
    /\ panic = "none"
    /\ \/ /\ QueueSize(ppu.pipeline) > 0
          /\ QueueTo("pop", QueuePop(ppu.pipeline), QueueHist(bus_ev).held - 1)
          /\ UNCHANGED panic
       \/ /\ QueueSize(ppu.pipeline) = 0
          /\ QueueTo("pop", QueuePop(ppu.pipeline), QueueSize(QueuePop(ppu.pipeline)))
          /\ UNCHANGED panic
       \/ /\ QueueSize(ppu.pipeline) = 0
          /\ panic' = "debug_assert"
          /\ UNCHANGED << ppu, bus_ev >>
    /\ UNCHANGED << cpu, it, serial, timer, joypad, apu, rom, wram, hram, sys, cpu_ev,
                    serial_output, loaded >>

\* Queue::clear
QueueClearCall ==
    /\ panic = "none"
    /\ QueueSize(ppu.pipeline) > 0
    /\ QueueTo("clear", QueueClear(ppu.pipeline), 0)
    /\ UNCHANGED << cpu, it, serial, timer, joypad, apu, rom, wram, hram, sys, cpu_ev,
                    serial_output, loaded, panic >>

NextQueue == QueuePushCall \/ QueuePopCall \/ QueueClearCall

InitQueue == Power(ImageNop, Mbc0, InterruptHandlerNew)

SpecQueue == InitQueue /\ [][NextQueue]_vars

\* C29: after any sequence of push, pop and clear the queue holds at most
\* N - 1 elements: size() is the number of elements held and is at most
\* N - 1, and is_full() holds exactly when size() = N - 1
C29_QueueBound ==
    /\ QueueSize(ppu.pipeline) = QueueHist(bus_ev).held
    /\ QueueSize(ppu.pipeline) <= FifoN - 1
    /\ QueueIsFull(ppu.pipeline) <=> QueueSize(ppu.pipeline) = FifoN - 1

\* a push on a full queue has been made, and the queue is still full
C29_Witness ==
    /\ bus_ev.op = "push"
    /\ bus_ev.was_full
    /\ QueueSize(ppu.pipeline) = FifoN - 1


----------------------------------------------------------------------------
(* Register F under the instructions that write it (cpu.rs): set_flag      *)
(* with one of the four flags, the ^= of CCF, and set_af, which only       *)
(* POP AF calls                                                            *)

\* a cartridge whose code loads C, pushes BC and AF, pops AF, and sets,
\* complements and clears flags
ImageFlags ==
    [len |-> ROM_REGION_SIZE, ctype |-> 0,
     ops |-> {OP_LD_C_N, OP_CPL, OP_SCF, OP_CCF, OP_XOR_A, OP_PUSH_BC, OP_PUSH_AF,
              OP_POP_AF},
     imm8 |-> {15, 255}, imm16 |-> {}, ldh |-> {}, jp |-> {DEFAULT_PC}, data |-> {0}]

InitFlags == Power(ImageFlags, Mbc0, InterruptHandlerNew)

SpecFlags == InitFlags /\ [][Next]_vars

\* C30: in every state of the CPU the low nibble of register F is zero,
\* whatever instructions have run; POP AF masks the low byte it pops
C30_FLowNibbleZero == BitAnd(cpu.f, 15) = 0

\* POP AF has just popped a low byte whose low nibble is not zero
C30_Witness ==
    /\ Stepped
    /\ cpu_ev.op = OP_POP_AF
    /\ BitAnd(BusRead(Bus, WrapSub16(cpu.sp, 2), 0), 15) # 0
    /\ cpu.f = BitAnd(BusRead(Bus, WrapSub16(cpu.sp, 2), 0), 240)
    /\ cpu.f # 0


----------------------------------------------------------------------------
(* Loads and stores of A through an absolute address (cpu.rs), run as      *)
(* straight-line code from the entry point                                 *)

\* the instructions followed
MaxLdSteps == 5

\* a cartridge whose code loads A with 0x42 or 0x00 and moves A to and from
\* the first byte of work RAM
ImageLd ==
    [len |-> ROM_REGION_SIZE, ctype |-> 0,
     ops |-> {OP_LD_A_N, OP_LD_NN_A, OP_LD_A_NN},
     imm8 |-> {66, 0}, imm16 |-> {WRAM_REGION_START}, ldh |-> {},
     jp |-> {DEFAULT_PC}, data |-> {0}]

\* the history: for each Cpu::step so far its opcode, its operand and the
\* ticks it returned
LdEv0 == [op |-> "none", trace |-> << >>]

LdHist(ev) == IF ev.op = "none" THEN LdEv0 ELSE ev

\* System::step, the call of Cpu::step on the next instruction of the image
LdCpuStep ==
    /\ panic = "none"
    /\ sys.at = "cpu"
    /\ Len(LdHist(bus_ev).trace) < MaxLdSteps
    /\ \E romop \in rom.storage.ops : \E imm \in Operands(rom.storage, romop) :
         /\ CpuStepTo(CpuStepResult(cpu, Bus, romop, imm))
         /\ bus_ev' = [op |-> "step",
                       trace |-> Append(LdHist(bus_ev).trace,
                                        [op |-> romop, imm |-> imm,
                                         ticks |-> CpuStepResult(cpu, Bus, romop, imm).ticks])]
    /\ UNCHANGED << serial_output, loaded >>

NextLd == LdCpuStep \/ PeripheralTicks \/ SerialStep \/ DmaTick

InitLd == Power(ImageLd, Mbc0, InterruptHandlerNew)

SpecLd == InitLd /\ [][NextLd]_vars

\* LD A,0x42; LD (0xC000),A; LD A,0x00; LD A,(0xC000)
LdProgram ==
    << [op |-> OP_LD_A_N, imm |-> [n |-> 66, nn |-> 0]],
       [op |-> OP_LD_NN_A, imm |-> [n |-> 0, nn |-> WRAM_REGION_START]],
       [op |-> OP_LD_A_N, imm |-> [n |-> 0, nn |-> 0]],
       [op |-> OP_LD_A_NN, imm |-> [n |-> 0, nn |-> WRAM_REGION_START]] >>

\* the four steps before this state, the k-th of them
LastFour(k) == LdHist(bus_ev).trace[Len(LdHist(bus_ev).trace) - 4 + k]

\* the last four steps of the CPU ran the program
RanLdProgram ==
    /\ Len(LdHist(bus_ev).trace) >= 4
    /\ \A k \in 1 .. 4 : /\ LastFour(k).op = LdProgram[k].op
                         /\ LastFour(k).imm = LdProgram[k].imm

LdTicks == LastFour(1).ticks + LastFour(2).ticks + LastFour(3).ticks + LastFour(4).ticks

\* C31: the four instructions LD A,0x42; LD (0xC000),A; LD A,0x00;
\* LD A,(0xC000) leave A = 0x42, and the four steps return 28 T-cycles in
\* total
C31_LoadStoreLoad28 == RanLdProgram => (cpu.a = 66 /\ LdTicks = 28)

\* C31, amended: the four instructions leave A = 0x42, and the four steps
\* return 8 + 16 + 8 + 16 = 48 T-cycles in total
C31_LoadStoreLoad == RanLdProgram => (cpu.a = 66 /\ LdTicks = 48)

\* the program has just run
C31_Witness == RanLdProgram /\ panic = "none" /\ cpu.a = 66 /\ LdTicks = 48


----------------------------------------------------------------------------
(* STOP (cpu.rs): the steps of the CPU after it, with and without a press  *)
(* of a button                                                             *)

\* a cartridge whose code stops the CPU
ImageStop ==
    [len |-> ROM_REGION_SIZE, ctype |-> 0, ops |-> {OP_NOP, OP_STOP},
     imm8 |-> {}, imm16 |-> {}, ldh |-> {}, jp |-> {DEFAULT_PC}, data |-> {0}]

NextStop == CpuStep \/ JoypadCall \/ PeripheralTicks \/ SerialStep \/ DmaTick

InitStop == Power(ImageStop, Mbc0, InterruptHandlerNew)

SpecStop == InitStop /\ [][NextStop]_vars

\* no button has been pressed since the system was constructed
NoPress == joypad = JoypadNew

\* C33: once STOP has executed the CPU is stopped until a button is
\* pressed: a step of the CPU taken while it is stopped and no button has
\* been pressed fetches and executes nothing, leaving the registers as
\* they were
C33_StoppedUntilPress ==
    [][ (CpuStepTaken /\ cpu.stopped /\ NoPress) => cpu' = cpu ]_vars


----------------------------------------------------------------------------
(* Queue<T, 16> as a first-in first-out store (collections/queue.rs): the  *)
(* values pushed are 1, 2, 3, ... in the order of the pushes, and no push  *)
(* is made on a full queue                                                 *)

\* the pushes followed: more than the 16 slots of data, so that head and
\* tail go round
MaxFifoPushes == 20

\* the history: the pushes and pops made, and what the last pop returned
FifoEv0 == [op |-> "none", pushes |-> 0, pops |-> 0, popped |-> 0]

FifoHist(ev) == IF ev.op = "none" THEN FifoEv0 ELSE ev

\* Queue::push of the next value, on a queue that is not full
FifoPushCall ==
    /\ panic = "none"
    /\ FifoHist(bus_ev).pushes < MaxFifoPushes
    /\ ~QueueIsFull(ppu.pipeline)
    /\ ppu' = [ppu EXCEPT !.pipeline = QueuePushValue(@, FifoHist(bus_ev).pushes + 1)]
    /\ bus_ev' = [FifoHist(bus_ev) EXCEPT !.op = "push", !.pushes = @ + 1]
    /\ UNCHANGED << cpu, it, serial, timer, joypad, apu, rom, wram, hram, sys, cpu_ev,
                    serial_output, loaded, panic >>

\* Queue::pop, on a queue that is not empty
FifoPopCall ==
    /\ panic = "none"
    /\ QueueSize(ppu.pipeline) > 0
    /\ ppu' = [ppu EXCEPT !.pipeline = QueuePop(@)]
    /\ bus_ev' = [FifoHist(bus_ev) EXCEPT !.op = "pop", !.pops = @ + 1,
                                          !.popped = QueuePopValue(ppu.pipeline)]
    /\ UNCHANGED << cpu, it, serial, timer, joypad, apu, rom, wram, hram, sys, cpu_ev,
                    serial_output, loaded, panic >>

NextFifo == FifoPushCall \/ FifoPopCall

InitFifo == Power(ImageNop, Mbc0, InterruptHandlerNew)

SpecFifo == InitFifo /\ [][NextFifo]_vars

\* C32: for pushes and pops that never hold more than N - 1 elements, each
\* pop returns the oldest element not yet popped (the k-th pop returns the
\* k-th value pushed) and size() is the pushes minus the pops
C32_FirstInFirstOut ==
    /\ bus_ev.op = "pop" => bus_ev.popped = bus_ev.pops
    /\ QueueSize(ppu.pipeline) = FifoHist(bus_ev).pushes - FifoHist(bus_ev).pops

\* a pop has returned a value from a slot of data used for the second time,
\* with other values still held
C32_Witness ==
    /\ bus_ev.op = "pop"
    /\ bus_ev.popped > FifoN
    /\ bus_ev.popped = bus_ev.pops
    /\ QueueSize(ppu.pipeline) > 1


----------------------------------------------------------------------------
(* The fetcher and the pixel FIFO within a call of Ppu::render             *)
(* (ppu/ppu.rs): fetch_pixel_row first, then the pop                       *)

\* the next call of Ppu::step renders
Renders(p) ==
    /\ PpuMode(p) = LCD_STATUS_MODE_XFER
    /\ p.pipeline.render_x < FRAME_WIDTH
    /\ ~p.pipeline.disabled

\* the fetcher pushes in the next call of fetch_pixel_row
FetcherPushes(pl) == fetch_pixel_row(pl).fetch_x # pl.fetch_x

RECURSIVE PushDrops(_, _)
\* the pushes, of n in a row, that find the queue full and drop its oldest
\* element
PushDrops(pl, n) ==
    IF n = 0 THEN 0
    ELSE (IF QueueIsFull(pl) THEN 1 ELSE 0) + PushDrops(QueuePush(pl), n - 1)

\* C34: the fetcher pushes only into an empty FIFO and then pushes exactly
\* 8 pixels; the FIFO never holds more than 8, between two calls of
\* Ppu::step and within one, and no push finds the queue full
C34_FetcherFillsEmptyFifo ==
    /\ QueueSize(ppu.pipeline) <= 8
    /\ Renders(ppu) =>
          /\ QueueSize(fetch_pixel_row(ppu.pipeline)) <= 8
          /\ FetcherPushes(ppu.pipeline) =>
                /\ QueueSize(ppu.pipeline) = 0
                /\ QueueSize(fetch_pixel_row(ppu.pipeline)) = 8
                /\ fetch_pixel_row(ppu.pipeline).fetch_x = ppu.pipeline.fetch_x + 8
                /\ PushDrops(ppu.pipeline, 8) = 0

\* the fetcher has just pushed its third row of the line or a later one,
\* and the first pixel of the row has been popped
C34_Witness ==
    /\ bus_ev.op = "tick"
    /\ bus_ev.mode_in = LCD_STATUS_MODE_XFER
    /\ ppu.pipeline.state = "Tile"
    /\ ppu.pipeline.ticks = 1
    /\ ppu.pipeline.fetch_x >= 24
    /\ QueueSize(ppu.pipeline) = 7


----------------------------------------------------------------------------
(* Reads of the switchable ROM bank against the length of the image        *)
(* (rom/mbc.rs, MbcController::read of Mbc1 and of Mbc3)                   *)

\* C35, as stated: on an MBC1 or MBC3 cartridge, whatever has been written
\* to the bank-select registers, the index rom_bank * 0x4000 +
\* (address - 0x4000) of a read of 0x4000-0x7FFF lies inside the image, and
\* no read aborts on it.
C35_BankIndexInsideImage ==
    /\ rom.mbc_ctrl.kind \in {"Mbc1", "Mbc3"} =>
          \A address \in {ROM_REGION_BANKN_START, ROM_REGION_END} :
             BankNIndex(rom.mbc_ctrl, address) < rom.storage.len
    /\ panic # "index out of bounds"


----------------------------------------------------------------------------
(* The 8-bit arithmetic of Ppu::scan_sprites (ppu/ppu.rs)                  *)

\* the test with both sides of && evaluated
ScanTestEager(ly, y, size) ==
    IF ly + 16 > 255 \/ y + size > 255 THEN "overflow"
    ELSE IF ly + 16 >= y /\ ly + 16 < y + size THEN "hit"
    ELSE "miss"

\* let rel_y = self.reg_ly + 16; rel_y >= y && rel_y < y + obj_size, on u8:
\* "overflow" where a sum that is evaluated passes 255 (an abort in a build
\* with overflow checks, a wrapped sum in one without); y + obj_size is
\* evaluated only where rel_y >= y
ScanTest(ly, y, size) ==
    IF ly + 16 > 255 THEN "overflow"
    ELSE IF ly + 16 < y THEN "miss"
    ELSE IF y + size > 255 THEN "overflow"
    ELSE IF ly + 16 < y + size THEN "hit"
    ELSE "miss"

\* C36: the call that scans finds LY in 0..143, and for every sprite Y in
\* 0..255 and both sprite heights no sum it evaluates passes 255: a sprite
\* is selected exactly when Y <= LY + 16 < Y + height
C36_ScanArithmetic ==
    Scans(ppu) =>
        /\ InRange(ppu.reg_ly, 0, FRAME_HEIGHT - 1)
        /\ obj_size(ppu) \in {8, 16}
        /\ \A y \in 0 .. 255 : \A size \in {8, 16} :
              ScanTest(ppu.reg_ly, y, size) =
                 (IF y <= ppu.reg_ly + 16 /\ ppu.reg_ly + 16 < y + size
                  THEN "hit" ELSE "miss")

\* the scan of the last line drawn has just run, with a sprite in OAM
C36_Witness ==
    /\ Ticked
    /\ bus_ev.mode_in = LCD_STATUS_MODE_OAM
    /\ bus_ev.ly_in = FRAME_HEIGHT - 1
    /\ ppu.hdots = 1
    /\ MemGet(ppu.oam, 0) = 16


----------------------------------------------------------------------------
(* LYC beyond the last line (ppu/ppu.rs, set_ly and handle_mode_vblank)    *)

\* LYC set to 154 or to 200, and the coincidence interrupt enabled in STAT,
\* before the first tick
LycSetups ==
    {<< REG_LYC_ADDR, 154 >>, << REG_LYC_ADDR, 200 >>,
     << REG_STAT_ADDR, FLAG_STAT_IT_LYC >>}

LycSetupCall ==
    /\ panic = "none"
    /\ PpuHist(bus_ev).n = 0
    /\ \E w \in LycSetups :
         /\ BusRead(Bus, w[1], 0) # w[2]
         /\ PpuWriteTo(w[1], w[2])

NextLyc == LycSetupCall \/ PpuTickCall

InitLyc == Power(ImageNop, Mbc0, InterruptHandlerNew)

SpecLyc == InitLyc /\ [][NextLyc]_vars

\* C37, as stated: with LYC at 154 or more, no call of Ppu::step leaves
\* STAT bit 2 set or requests the LCD-STAT interrupt for a coincidence,
\* whatever STAT bit 6 is (the other sources of that interrupt, STAT bits
\* 3 to 5, being off).
C37_NoCoincidencePast153 ==
    (Ticked /\ ppu.reg_lyc >= 154) =>
        /\ ~is_set(ppu.reg_stat, FLAG_STAT_LYC)
        /\ BitAnd(ppu.reg_stat, FLAG_STAT_IT_OAM + FLAG_STAT_IT_VBLANK
                                + FLAG_STAT_IT_HBLANK) = 0 =>
              BitAnd(bus_ev.irq, Flag_Lcdc) = 0


----------------------------------------------------------------------------
(* System::reset among reads and writes of the bus (system.rs)             *)

\* System::reset: the reset of the Ppu, the Timer, the Serial, the Joypad,
\* the InterruptHandler and the Cpu, each of which restores what its new()
\* builds; nothing else is touched (bus_ev keeps that a reset took place)
SystemReset ==
    /\ panic = "none"
    /\ ppu' = PpuNew
    /\ timer' = TimerNew
    /\ serial' = SerialNew
    /\ joypad' = JoypadNew
    /\ it' = InterruptHandlerNew
    /\ cpu' = CpuNew
    /\ bus_ev' = [op |-> "reset"]
    /\ UNCHANGED << apu, rom, wram, hram, sys, cpu_ev, serial_output, loaded, panic >>

NextReset == BusWriteCall \/ BusReadCall \/ SystemReset

SpecReset == InitBus /\ [][NextReset]_vars

\* C38, as stated: System::reset leaves the CPU, the PPU, the timer, the
\* serial port, the joypad, the interrupt controller, the APU, work RAM and
\* high RAM as a freshly constructed System has them.
C38_ResetIsPowerOn ==
    [][SystemReset =>
          /\ cpu' = CpuNew
          /\ ppu' = PpuNew
          /\ timer' = TimerNew
          /\ serial' = SerialNew
          /\ joypad' = JoypadNew
          /\ it' = InterruptHandlerNew
          /\ apu' = ApuNew
          /\ wram' = EmptyMem
          /\ hram' = EmptyMem]_vars


----------------------------------------------------------------------------
(* The ROM banks an MBC1 can still select (rom/mbc.rs, Mbc1::write)        *)

\* the writes to 0x2000-0x3FFF and to 0x4000-0x5FFF, told apart by the
\* bits the controller keeps of the byte
BankSelectWrites ==
    {<< RAM_ENABLE_END + 1, v >> : v \in 0 .. 31}
       \cup {<< ROM_BANK_SEL_END + 1, v >> : v \in 0 .. 3}

RECURSIVE ControllersFrom(_, _)
\* the controller states that sequences of such writes lead to: those seen
\* so far, and among them those whose successors are still to be taken
ControllersFrom(seen, frontier) ==
    IF frontier = {} THEN seen
    ELSE ControllersFrom(
            seen \cup {Mbc1Write(m, w[1], w[2]) : m \in frontier, w \in BankSelectWrites},
            {Mbc1Write(m, w[1], w[2]) : m \in frontier, w \in BankSelectWrites} \ seen)

\* the ROM banks that can be selected from controller state m
BanksFrom(m) == {c.rom_bank : c \in ControllersFrom({m}, {m})}

\* C39, as stated: from every state an MBC1 reaches (here: in ROM banking
\* mode), each bank of 1..0x7F other than 0x20, 0x40 and 0x60 can be
\* selected by writes to 0x2000-0x3FFF and 0x4000-0x5FFF.
C39_EveryBankSelectable ==
    (rom.mbc_ctrl.kind = "Mbc1" /\ ~rom.mbc_ctrl.ram_bank_mode) =>
        (1 .. 127) \ {32, 64, 96} \subseteq BanksFrom(rom.mbc_ctrl)


----------------------------------------------------------------------------
(* Wave RAM behind Apu::write and Apu::read, the APU on and off            *)
(* (apu/apu.rs, apu/channel3.rs)                                           *)

\* the first two bytes of wave RAM and the last
WaveAddresses ==
    {WAVE_PATTERN_RAM_START, WAVE_PATTERN_RAM_START + 1, WAVE_PATTERN_RAM_END}

\* the bytes written
WaveValues == {90, 165}

\* Bus::write on wave RAM
WaveWriteCall ==
    /\ ApuHist(bus_ev).writes < MaxApuWrites
    /\ \E address \in WaveAddresses : \E value \in WaveValues :
         ApuWriteTo(address, value)
    /\ UNCHANGED << cpu, it, serial, timer, joypad, ppu, rom, wram, hram, sys,
                    cpu_ev, serial_output, loaded, panic >>

\* Bus::write on NR52: the power off and on
WavePowerCall ==
    /\ ApuHist(bus_ev).writes < MaxApuWrites
    /\ \E value \in {0, 128} : ApuWriteTo(REG_NR52_ADDR, value)
    /\ UNCHANGED << cpu, it, serial, timer, joypad, ppu, rom, wram, hram, sys,
                    cpu_ev, serial_output, loaded, panic >>

NextWave == WaveWriteCall \/ WavePowerCall

SpecWave == InitApu /\ [][NextWave]_vars

\* C40, as stated: a write to any address of 0xFF30-0xFF3F made while the
\* APU is off and channel 3 disabled stores the byte: a read of the address
\* then returns it.
C40_WaveRamWhileOff ==
    ( /\ ApuWritten
      /\ InRange(bus_ev.address, WAVE_PATTERN_RAM_START, WAVE_PATTERN_RAM_END)
      /\ ~ApuIsEnabled(bus_ev.before)
      /\ ~bus_ev.before.channel_3.enabled )
    => ApuRead(apu, bus_ev.address) = bus_ev.value

====
